---- MODULE Spec2Model ----
(***************************************************************************)
(* Verification model of the admin panel: the project-request permission   *)
(* evaluator (getProjectRequestPermissions) and the project-requests list  *)
(* page (ProjectRequestsPage) that calls it, the status badge mapper       *)
(* (getStatusBadge), the proxy routes of users and project-request         *)
(* documents, the paginated fetch of the Users page (fetchUsers) with its  *)
(* tabs, search and client-side pagination, the notifications hook         *)
(* (useNotifications) and the submission of the edit-user modal            *)
(* (EditUserModal).                                                        *)
(*                                                                         *)
(* JavaScript values are modelled as tagged records so that truthiness,    *)
(* the value-returning operators && and ||, optional chaining and strict   *)
(* equality behave as they do in the code: "a && b" yields a or b, never   *)
(* a coerced boolean.                                                      *)
(***************************************************************************)
EXTENDS Integers, Sequences, FiniteSets, TLC

VARIABLES
    \* --- evaluator harness: one call of getProjectRequestPermissions ---
    evalRequest,       \* the projectRequest argument
    evalUser,          \* the currentUser argument
    evalResult,        \* NotEvaluated, or the returned permission record
    \* --- ProjectRequestsPage state (useState hooks) and its backend ---
    mounted,           \* the mount effects have run
    currentUser,       \* currentUser state (Null until loaded from storage)
    projectRequests,   \* projectRequests state: the listed snapshot
    selectedRequests,  \* selectedRequests state: sequence of request ids
    filters,           \* filters state (status, showDeleted)
    currentPage,       \* currentPage state
    totalPages,        \* totalPages state
    backend,           \* the remote backend's project requests, by id
    failedFetches,     \* list fetches that have failed so far
    sent,              \* the requests the last handler sent to the backend
    \* --- status badge harness: one call of getStatusBadge ---
    badgeStatus,       \* the status argument (NoArgument before it is drawn)
    badgeCanEdit,      \* the canEdit argument
    badgeResult,       \* NotEvaluated, or the returned badge
    \* --- proxy route harness: one inbound call of one route handler ---
    proxyRequest,      \* the inbound call: handler, token, id, body
    proxyBackend,      \* what the backend does when it is called
    proxyResponse,     \* NoResponse, or the response the handler returned
    proxyOutbound,     \* outbound calls the handler has made
    \* --- Users page (useState hooks), its fetchUsers runs, its backend ---
    allUsers,          \* allUsers state
    errorMessage,      \* errorMessage state
    isLoading,         \* isLoading state
    location,          \* window.location.href
    accessToken,       \* localStorage 'accessToken' (Null when absent)
    fetchRuns,         \* the runs of fetchUsers: their local variables
    usersBackend,      \* the users the backend lists, in its order
    activeTab,         \* activeTab state
    searchQuery,       \* searchQuery state
    debouncedSearchQuery, \* debouncedSearchQuery state
    selectedRole,      \* selectedRole state
    usersCurrentPage,  \* currentPage state of the users page
    debounceTimer,     \* the pending setTimeout of the debounce effect
    deactivatedBackend, \* the users /api/users/deactivated lists
    viewActions,       \* inputs, clicks and tab switches made so far
    \* --- useNotifications: the hook's state, its requests, its backend ---
    hook,              \* the useState values of the hook, by name
    params,            \* the params argument of the hook
    effectDeps,        \* currentSkip when the fetch effect last ran
    inFlight,          \* getNotifications calls that await their response
    lastCall,          \* the component's last call to the hook
    notifBackend,      \* the backend's notifications: their read flags
    notifToken,        \* localStorage 'accessToken' is present
    userActions,       \* calls the component has made to the hook
    \* --- EditUserModal: its props, its useState values, its submit ---
    editUser,          \* the user prop
    formData,          \* formData state
    changedFields,     \* changedFields state (a set of field names)
    selectedSubroles,  \* selectedSubroles state
    modalError,        \* error state
    modalLoading,      \* isLoading state
    modalToken,        \* localStorage 'accessToken' (Null when absent)
    submitRun,         \* the running or last handleSubmit: its position, its
                       \* local variables, the requests it has sent
    saved,             \* the argument of onSave, once it has been called
    closed,            \* onClose has been called
    formActions        \* edits and submits made so far

evalVars == <<evalRequest, evalUser, evalResult>>
pageVars == <<mounted, currentUser, projectRequests, selectedRequests,
              filters, currentPage, totalPages, backend, failedFetches,
              sent>>
badgeVars == <<badgeStatus, badgeCanEdit, badgeResult>>
proxyVars == <<proxyRequest, proxyBackend, proxyResponse, proxyOutbound>>
viewVars == <<activeTab, searchQuery, debouncedSearchQuery, selectedRole,
              usersCurrentPage, debounceTimer, deactivatedBackend,
              viewActions>>
usersVars == <<allUsers, errorMessage, isLoading, location, accessToken,
               fetchRuns, usersBackend, viewVars>>
hookVars == <<hook, params, effectDeps, inFlight, lastCall, notifBackend,
              notifToken, userActions>>
\* everything but the list page's state
modalVars == <<editUser, formData, changedFields, selectedSubroles,
               modalError, modalLoading, modalToken, submitRun, saved,
               closed, formActions>>
nonPageVars == <<evalVars, badgeVars, proxyVars, usersVars, hookVars,
                 modalVars>>
vars == <<evalRequest, evalUser, evalResult, mounted, currentUser,
          projectRequests, selectedRequests, filters, currentPage,
          totalPages, backend, failedFetches, sent,
          badgeStatus, badgeCanEdit, badgeResult,
          proxyRequest, proxyBackend, proxyResponse, proxyOutbound,
          allUsers, errorMessage, isLoading, location, accessToken,
          fetchRuns, usersBackend,
          activeTab, searchQuery, debouncedSearchQuery, selectedRole,
          usersCurrentPage, debounceTimer, deactivatedBackend, viewActions,
          hook, params, effectDeps, inFlight, lastCall, notifBackend,
          notifToken, userActions,
          editUser, formData, changedFields, selectedSubroles, modalError,
          modalLoading, modalToken, submitRun, saved, closed, formActions>>

(***************************************************************************)
(* Bounds                                                                  *)
(***************************************************************************)
NumIds == 2          \* distinct non-empty user identifiers "u1".."uN"
NumRequests == 2     \* project requests held by the backend, "r1".."rN"
PageSize == 1        \* requests per list page (limit=20 in the source,
                     \* scaled to the number of requests of the model)
MaxFailedFetches == 1  \* list fetches that may fail in one run
limit == 2           \* users per page request of fetchUsers (limit = 100
                     \* in the source, scaled to the users of the model)
MaxUsers == 3        \* users the backend lists
MaxRuns == 2         \* runs of fetchUsers in one behaviour
NumNotifications == 3  \* notifications the backend holds
DefaultLimit == 2    \* page size when params.limit is absent or 0 (20 in
                     \* the source, scaled to the notifications of the model)
MaxUserActions == 3  \* calls of loadMore, refetch, markAsRead, markAllAsRead
USERS_PER_PAGE == 1  \* users per displayed page (20 in the source, scaled
                     \* to the users of the model)
MaxViewActions == 3  \* inputs, clicks and tab switches in one behaviour
MaxFormActions == 3  \* edits and submits of the edit form in one behaviour

(***************************************************************************)
(* JavaScript values                                                       *)
(***************************************************************************)
Undefined == [t |-> "undefined"]
Null == [t |-> "null"]
Str(s) == [t |-> "string", s |-> s]
Bool(b) == [t |-> "boolean", b |-> b]
Num(n) == [t |-> "number", v |-> n]
Arr(items) == [t |-> "array", items |-> items]

\* typeof v
TypeOf(v) == IF v.t \in {"null", "array"} THEN "object" ELSE v.t

\* ToBoolean(v): undefined, null, '' and false are falsy
Truthy(v) ==
    CASE v.t = "undefined" -> FALSE
      [] v.t = "null"      -> FALSE
      [] v.t = "string"    -> v.s # ""
      [] v.t = "boolean"   -> v.b
      [] v.t = "number"    -> v.v # 0
      [] OTHER             -> TRUE

\* a || b and a && b return one of their operands
JsOr(a, b) == IF Truthy(a) THEN a ELSE b
JsAnd(a, b) == IF Truthy(a) THEN b ELSE a
\* !a is always a boolean
JsNot(a) == Bool(~Truthy(a))
\* a === b on values of this representation
StrictEq(a, b) == Bool(a = b)
\* a !== b
StrictNeq(a, b) == Bool(a # b)

\* o?.f : undefined when o is null or undefined, or lacks the property
OptGet(o, f) ==
    IF o.t \in {"undefined", "null"} THEN Undefined
    ELSE IF f \in DOMAIN o THEN o[f] ELSE Undefined

\* String.prototype.toString(): applied to non-empty strings only (both
\* operands of && before it are truthy strings), where it returns the string
ToStringJs(v) == v

(***************************************************************************)
(* Input domains                                                           *)
(***************************************************************************)
UserIds == {"u" \o ToString(i) : i \in 1..NumIds}
Statuses == {"pending", "under_review", "approved", "rejected", "on_hold"}
\* an optional string field: absent, empty, or an identifier
OptIdValues == {Undefined, Str("")} \cup {Str(i) : i \in UserIds}
\* an optional role: absent, empty, the three reviewer roles, another role
RoleValues == {Undefined, Str(""), Str("admin"), Str("mentor"),
               Str("researcher"), Str("team_member")}

\* submittedBy?: string | { _id?: string; id?: string }  (null from JSON)
SubmittedByValues ==
    {Undefined, Null, Str("")} \cup {Str(i) : i \in UserIds}
    \cup {[t |-> "object", _id |-> a, id |-> b] :
             a \in OptIdValues, b \in OptIdValues}

\* interface ProjectRequest, with the list page's isDeleted flag
RequestValues ==
    {Undefined, Null} \cup
    {[t |-> "object", status |-> st, submittedBy |-> sb,
      submittedById |-> sid, isDeleted |-> del] :
        st \in Statuses, sb \in SubmittedByValues,
        sid \in OptIdValues, del \in {Undefined, Bool(TRUE)}}

\* interface CurrentUser
UserValues ==
    {Undefined, Null} \cup
    {[t |-> "object", id |-> a, _id |-> b, role |-> r] :
        a \in OptIdValues, b \in OptIdValues, r \in RoleValues}

(***************************************************************************)
(* getProjectRequestPermissions                                            *)
(***************************************************************************)
\* variant: the degenerate record forgets to be read-only
DegenerateRecord_writable ==
    [canEdit |-> Bool(FALSE), canChangeStatus |-> Bool(FALSE),
     canViewDocument |-> Bool(FALSE), canDelete |-> Bool(FALSE),
     canApprove |-> Bool(FALSE), canReject |-> Bool(FALSE),
     isReadOnly |-> Bool(FALSE), showAdminBadge |-> Bool(FALSE)]

DegenerateRecord ==
    [canEdit |-> Bool(FALSE), canChangeStatus |-> Bool(FALSE),
     canViewDocument |-> Bool(FALSE), canDelete |-> Bool(FALSE),
     canApprove |-> Bool(FALSE), canReject |-> Bool(FALSE),
     isReadOnly |-> Bool(TRUE), showAdminBadge |-> Bool(FALSE)]

\* const userId = currentUser.id || currentUser._id || ''
userId(cu) == JsOr(JsOr(cu.id, cu._id), Str(""))

\* variant: the embedded _id is not consulted
submittedById_idOnly(pr) ==
    IF TypeOf(pr.submittedBy) = "string"
    THEN pr.submittedBy
    ELSE JsOr(JsOr(OptGet(pr.submittedBy, "id"), pr.submittedById), Str(""))

\* const submittedById = typeof submittedBy === 'string' ? submittedBy
\*    : submittedBy?._id || submittedBy?.id || pr.submittedById || ''
submittedById(pr) ==
    IF TypeOf(pr.submittedBy) = "string"
    THEN pr.submittedBy
    ELSE JsOr(JsOr(JsOr(OptGet(pr.submittedBy, "_id"),
                        OptGet(pr.submittedBy, "id")),
                   pr.submittedById),
              Str(""))

\* const isOwner = userId && submittedById && userId.toString() === ...
isOwner(pr, cu) ==
    JsAnd(JsAnd(userId(cu), submittedById(pr)),
          StrictEq(ToStringJs(userId(cu)), ToStringJs(submittedById(pr))))

\* variant: the whole reviewer tier counts as administrator
isAdmin_reviewers(cu) ==
    Bool(JsOr(cu.role, Str("")) \in
            {Str("mentor"), Str("researcher"), Str("admin")})

isAdmin(cu) == StrictEq(cu.role, Str("admin"))

\* ['mentor', 'researcher', 'admin'].includes(currentUser.role || '')
isMentorOrHigher(cu) ==
    Bool(JsOr(cu.role, Str("")) \in
            {Str("mentor"), Str("researcher"), Str("admin")})

isApproved(pr) == StrictEq(Str(pr.status), Str("approved"))

\* variant: the owner's edit right is not withdrawn on rejection
fieldCanEdit_noRejected(pr, own, adm, men, app) ==
    JsOr(JsOr(adm, JsAnd(own, JsNot(app))), JsAnd(men, JsNot(app)))

\* canEdit: isAdmin || (isOwner && !isApproved && status !== 'rejected')
\*          || (isMentorOrHigher && !isApproved)
fieldCanEdit(pr, own, adm, men, app) ==
    JsOr(JsOr(adm,
              JsAnd(JsAnd(own, JsNot(app)),
                    StrictNeq(Str(pr.status), Str("rejected")))),
         JsAnd(men, JsNot(app)))

\* canChangeStatus: isAdmin || (isMentorOrHigher && !isApproved)
fieldCanChangeStatus(adm, men, app) == JsOr(adm, JsAnd(men, JsNot(app)))

\* canViewDocument: isAdmin || isOwner || isMentorOrHigher
fieldCanViewDocument(adm, own, men) == JsOr(JsOr(adm, own), men)

\* variant: the owner may delete while the request is under review
fieldCanDelete_noReview(pr, adm, own) ==
    JsOr(adm, JsAnd(own, StrictNeq(Str(pr.status), Str("approved"))))

\* canDelete: isAdmin || (isOwner && status !== 'approved'
\*                                && status !== 'under_review')
fieldCanDelete(pr, adm, own) ==
    JsOr(adm,
         JsAnd(JsAnd(own, StrictNeq(Str(pr.status), Str("approved"))),
               StrictNeq(Str(pr.status), Str("under_review"))))

\* canApprove, canReject: isMentorOrHigher && !isApproved
fieldCanApprove(men, app) == JsAnd(men, JsNot(app))
fieldCanReject(men, app) == JsAnd(men, JsNot(app))

\* isReadOnly: isApproved && !isAdmin
fieldIsReadOnly(app, adm) == JsAnd(app, JsNot(adm))

\* variant: the badge condition is a copy of the read-only condition
fieldShowAdminBadge_notAdmin(app, adm) == JsAnd(app, JsNot(adm))

\* showAdminBadge: isApproved && isAdmin
fieldShowAdminBadge(app, adm) == JsAnd(app, adm)

getProjectRequestPermissions(pr, cu) ==
    IF ~Truthy(pr) \/ ~Truthy(cu)
    THEN DegenerateRecord
    ELSE
      LET own == isOwner(pr, cu)
          adm == isAdmin(cu)
          men == isMentorOrHigher(cu)
          app == isApproved(pr)
      IN  [canEdit |-> fieldCanEdit(pr, own, adm, men, app),
           canChangeStatus |-> fieldCanChangeStatus(adm, men, app),
           canViewDocument |-> fieldCanViewDocument(adm, own, men),
           canDelete |-> fieldCanDelete(pr, adm, own),
           canApprove |-> fieldCanApprove(men, app),
           canReject |-> fieldCanReject(men, app),
           isReadOnly |-> fieldIsReadOnly(app, adm),
           showAdminBadge |-> fieldShowAdminBadge(app, adm)]

\* export function canChangeStatus(projectRequest, currentUser): boolean
canChangeStatus(pr, cu) == getProjectRequestPermissions(pr, cu).canChangeStatus

(***************************************************************************)
(* Evaluator harness: the arguments are drawn from the input domains and   *)
(* one call is made.                                                       *)
(***************************************************************************)
NotEvaluated == [t |-> "not-evaluated"]

PageIdle ==
    /\ mounted = FALSE
    /\ currentUser = Null
    /\ projectRequests = <<>>
    /\ selectedRequests = <<>>
    /\ filters = [status |-> "", showDeleted |-> FALSE]
    /\ currentPage = 1
    /\ totalPages = 1
    /\ backend = <<>>
    /\ failedFetches = 0
    /\ sent = {}

\* no call of getStatusBadge is under way
NoArgument == [t |-> "no-argument"]

BadgeIdle ==
    /\ badgeStatus = NoArgument
    /\ badgeCanEdit = NoArgument
    /\ badgeResult = NotEvaluated

\* no route handler has been called
NoCall == [t |-> "no-call"]
NoResponse == [t |-> "no-response"]

ProxyIdle ==
    /\ proxyRequest = NoCall
    /\ proxyBackend = NoCall
    /\ proxyResponse = NoResponse
    /\ proxyOutbound = 0

\* the Users page is not rendered
\* the filters, the page and the tab as useState initialises them
ViewAtRest ==
    /\ activeTab = "active"
    /\ searchQuery = ""
    /\ debouncedSearchQuery = ""
    /\ selectedRole = ""
    /\ usersCurrentPage = 1
    /\ debounceTimer = Null
    /\ viewActions = 0

UsersIdle ==
    /\ allUsers = <<>>
    /\ errorMessage = Null
    /\ isLoading = TRUE
    /\ location = "/users"
    /\ accessToken = Null
    /\ fetchRuns = <<>>
    /\ usersBackend = <<>>
    /\ ViewAtRest
    /\ deactivatedBackend = <<>>

\* useNotifications is not in use
HookIdle ==
    /\ hook = Null
    /\ params = Null
    /\ effectDeps = Null
    /\ inFlight = <<>>
    /\ lastCall = Null
    /\ notifBackend = <<>>
    /\ notifToken = FALSE
    /\ userActions = 0

\* EditUserModal is not rendered
ModalIdle ==
    /\ editUser = Null
    /\ formData = Null
    /\ changedFields = {}
    /\ selectedSubroles = <<>>
    /\ modalError = Null
    /\ modalLoading = FALSE
    /\ modalToken = Null
    /\ submitRun = Null
    /\ saved = Null
    /\ closed = FALSE
    /\ formActions = 0

InitEval ==
    /\ evalRequest \in RequestValues
    /\ evalUser \in UserValues
    /\ evalResult = NotEvaluated
    /\ PageIdle
    /\ BadgeIdle
    /\ ProxyIdle
    /\ UsersIdle
    /\ HookIdle
    /\ ModalIdle

Evaluate ==
    /\ evalResult = NotEvaluated
    /\ evalResult' = getProjectRequestPermissions(evalRequest, evalUser)
    /\ UNCHANGED <<evalRequest, evalUser>>
    /\ UNCHANGED <<pageVars, badgeVars, proxyVars,
                   usersVars, hookVars, modalVars>>

NextEval == Evaluate

SpecEval == InitEval /\ [][NextEval]_vars

(***************************************************************************)
(* getStatusBadge                                                          *)
(***************************************************************************)
\* the object returned for a missing status
UnknownBadge ==
    [t |-> "object", color |-> Str("bg-gray-100 text-gray-800"),
     text |-> Str("Unknown"), icon |-> Str("clock")]

\* variant: the colour of the approved entry follows canEdit
badges_editColor(canEdit) ==
    [pending |->
        [t |-> "object", color |-> Str("bg-yellow-100 text-yellow-800"),
         text |-> Str("Pending"), icon |-> Str("clock")],
     under_review |->
        [t |-> "object", color |-> Str("bg-blue-100 text-blue-800"),
         text |-> Str("Under Review"), icon |-> Str("eye")],
     approved |->
        [t |-> "object",
         color |-> IF Truthy(canEdit) THEN Str("bg-green-100 text-green-800")
                   ELSE Str("bg-gray-100 text-gray-800"),
         text |-> Str("Approved"), icon |-> Str("check-circle"),
         badge |-> IF Truthy(canEdit) THEN Str("Admin-Only Editing")
                   ELSE Str("Read-Only")],
     rejected |->
        [t |-> "object", color |-> Str("bg-red-100 text-red-800"),
         text |-> Str("Rejected"), icon |-> Str("times-circle")],
     on_hold |->
        [t |-> "object", color |-> Str("bg-gray-100 text-gray-800"),
         text |-> Str("On Hold"), icon |-> Str("pause")]]

\* const badges: Record<string, {color, text, icon, badge?}>
badges(canEdit) ==
    [pending |->
        [t |-> "object", color |-> Str("bg-yellow-100 text-yellow-800"),
         text |-> Str("Pending"), icon |-> Str("clock")],
     under_review |->
        [t |-> "object", color |-> Str("bg-blue-100 text-blue-800"),
         text |-> Str("Under Review"), icon |-> Str("eye")],
     approved |->
        [t |-> "object", color |-> Str("bg-green-100 text-green-800"),
         text |-> Str("Approved"), icon |-> Str("check-circle"),
         badge |-> IF Truthy(canEdit) THEN Str("Admin-Only Editing")
                   ELSE Str("Read-Only")],
     rejected |->
        [t |-> "object", color |-> Str("bg-red-100 text-red-800"),
         text |-> Str("Rejected"), icon |-> Str("times-circle")],
     on_hold |->
        [t |-> "object", color |-> Str("bg-gray-100 text-gray-800"),
         text |-> Str("On Hold"), icon |-> Str("pause")]]

\* o[key] on a plain object whose own keys are the fields of the record
Lookup(o, key) == IF key \in DOMAIN o THEN o[key] ELSE Undefined

\* variant: the badge text is chosen by the negation of canEdit
getStatusBadge_negated(status, canEdit) ==
    IF ~Truthy(status) THEN UnknownBadge
    ELSE JsOr(Lookup(badges(JsNot(canEdit)), status.s),
              badges(JsNot(canEdit)).pending)

\* export function getStatusBadge(status: string | undefined, canEdit)
getStatusBadge(status, canEdit) ==
    IF ~Truthy(status) THEN UnknownBadge
    ELSE JsOr(Lookup(badges(canEdit), status.s), badges(canEdit).pending)

(***************************************************************************)
(* Badge harness: getStatusBadge is called once, either with arguments     *)
(* drawn from the input domains, or for a request and an actor with the    *)
(* canEdit that getProjectRequestPermissions computed for them.            *)
(***************************************************************************)
\* status: string | undefined -- absent, empty, the five statuses, another
StatusArguments ==
    {Undefined, Str(""), Str("archived")} \cup {Str(s) : s \in Statuses}

InitBadge ==
    /\ evalResult = NotEvaluated
    /\ badgeResult = NotEvaluated
    /\ PageIdle
    /\ ProxyIdle
    /\ UsersIdle
    /\ HookIdle
    /\ ModalIdle
    /\ \/ /\ evalRequest \in RequestValues
          /\ evalUser \in UserValues
          /\ badgeStatus = NoArgument
          /\ badgeCanEdit = NoArgument
       \/ /\ evalRequest = Undefined
          /\ evalUser = Undefined
          /\ badgeStatus \in StatusArguments
          /\ badgeCanEdit \in {Bool(TRUE), Bool(FALSE)}

\* getStatusBadge(status, canEdit) on the drawn arguments
CallStatusBadge ==
    /\ badgeStatus # NoArgument
    /\ badgeResult = NotEvaluated
    /\ badgeResult' = getStatusBadge(badgeStatus, badgeCanEdit)
    /\ UNCHANGED <<badgeStatus, badgeCanEdit>>
    /\ UNCHANGED <<evalVars, pageVars, proxyVars,
                   usersVars, hookVars, modalVars>>

\* getStatusBadge(projectRequest?.status, permissions.canEdit)
CallStatusBadgeWithPermissions ==
    /\ evalResult # NotEvaluated
    /\ badgeStatus = NoArgument
    /\ LET status == IF evalRequest.t = "object"
                     THEN Str(evalRequest.status) ELSE Undefined
       IN /\ badgeStatus' = status
          /\ badgeCanEdit' = evalResult.canEdit
          /\ badgeResult' = getStatusBadge(status, evalResult.canEdit)
    /\ UNCHANGED <<evalVars, pageVars, proxyVars,
                   usersVars, hookVars, modalVars>>

NextBadge ==
    \/ Evaluate
    \/ CallStatusBadge
    \/ CallStatusBadgeWithPermissions

SpecBadge == InitBadge /\ [][NextBadge]_vars

(***************************************************************************)
(* ProjectRequestsPage and the backend it talks to.  Every handler is one  *)
(* action, the refresh it ends with included.  The backend is an external  *)
(* service: it accepts or refuses each request it receives.                *)
(***************************************************************************)
RequestId(i) == "r" \o ToString(i)
RequestIds == {RequestId(i) : i \in 1..NumRequests}
IndexOf(id) == CHOOSE i \in 1..NumRequests : RequestId(i) = id
\* the submitter of each backend request
Submitter(i) == "u" \o ToString(((i - 1) % NumIds) + 1)

\* the user object found in localStorage at mount, Null when there is none
StoredUsers ==
    {Null,
     [t |-> "object", id |-> Str("u2"), _id |-> Undefined,
      role |-> Str("admin")],
     [t |-> "object", id |-> Str("u2"), _id |-> Undefined,
      role |-> Str("mentor")],
     [t |-> "object", id |-> Str("u1"), _id |-> Undefined,
      role |-> Str("team_member")]}

\* options of the status filter <select> that are exercised: all statuses,
\* one status, the deleted listing
FilterStatusValues == {"", "approved", "deleted"}

\* a list item as the backend serialises request i
Item(bk, i) ==
    [t |-> "object", _id |-> RequestId(i), status |-> bk[i].status,
     submittedBy |-> Str(Submitter(i)), submittedById |-> Undefined,
     isDeleted |-> IF bk[i].isDeleted THEN Bool(TRUE) ELSE Undefined]

shouldUseDeletedEndpoint(f) == f.showDeleted \/ f.status = "deleted"

\* the backend requests a query matches, in backend order: the deleted
\* listing or the default listing, narrowed by the status parameter
Matching(bk, f) ==
    SelectSeq([i \in 1..NumRequests |-> i],
              LAMBDA i :
                /\ bk[i].isDeleted = shouldUseDeletedEndpoint(f)
                /\ (f.status \in {"", "deleted"} \/ bk[i].status = f.status))

\* data.data.items for limit = PageSize, skip = (currentPage - 1) * PageSize
FetchedItems(bk, f, page) ==
    LET m == Matching(bk, f)
        skip == (page - 1) * PageSize
        last == IF skip + PageSize < Len(m) THEN skip + PageSize ELSE Len(m)
    IN  IF last <= skip THEN <<>>
        ELSE [k \in 1..(last - skip) |-> Item(bk, m[skip + k])]

\* Math.ceil((pagination.total || 0) / PageSize)
FetchedTotalPages(bk, f) == (Len(Matching(bk, f)) + PageSize - 1) \div PageSize

\* fetchProjectRequests: on success the list and the page count are replaced;
\* without a token, on an unsuccessful answer or on a network error the list
\* (prev) is left as it is
fetchProjectRequests(bk, f, page, prev) ==
    \/ /\ projectRequests' = FetchedItems(bk, f, page)
       /\ totalPages' = FetchedTotalPages(bk, f)
       /\ UNCHANGED failedFetches
    \/ /\ failedFetches < MaxFailedFetches
       /\ failedFetches' = failedFetches + 1
       /\ projectRequests' = prev
       /\ UNCHANGED totalPages

\* projectRequests.find(r => r._id === requestId), Undefined when not listed
Find(id) ==
    IF \E k \in 1..Len(projectRequests) : projectRequests[k]._id = id
    THEN projectRequests[CHOOSE k \in 1..Len(projectRequests) :
                            projectRequests[k]._id = id]
    ELSE Undefined

\* one HTTP request to the backend, with the listed row it was issued for
Request(id, op, status) ==
    [id |-> id, op |-> op, status |-> status, listedAs |-> Find(id)]

\* the backend's state after it accepted a request
Accepted(bk, m) ==
    LET i == IndexOf(m.id)
    IN  IF m.op = "delete"
        THEN [bk EXCEPT ![i].isDeleted = TRUE]
        ELSE [bk EXCEPT ![i].status = m.status]

\* the backend can accept a request only for a request that is not deleted
CanAccept(bk, m) == ~bk[IndexOf(m.id)].isDeleted

\* the selection checkboxes are rendered
SelectionColumnShown == ~(filters.showDeleted \/ filters.status = "deleted")

\* the bulk actions bar is rendered
BulkBarShown ==
    /\ Len(selectedRequests) > 0
    /\ ~filters.showDeleted
    /\ filters.status # "deleted"

\* the row's action buttons are rendered (row k is not a deleted request)
RowActionsShown(k) ==
    /\ k \in 1..Len(projectRequests)
    /\ ~Truthy(projectRequests[k].isDeleted)

RowPermissions(k) == getProjectRequestPermissions(projectRequests[k], currentUser)

InitPage ==
    /\ evalRequest = Undefined
    /\ evalUser = Undefined
    /\ evalResult = NotEvaluated
    /\ mounted = FALSE
    /\ currentUser = Null
    /\ projectRequests = <<>>
    /\ selectedRequests = <<>>
    /\ filters = [status |-> "", showDeleted |-> FALSE]
    /\ currentPage = 1
    /\ totalPages = 1
    /\ backend \in [1..NumRequests -> [status : Statuses, isDeleted : {FALSE}]]
    /\ failedFetches = 0
    /\ sent = {}
    /\ BadgeIdle
    /\ ProxyIdle
    /\ UsersIdle
    /\ HookIdle
    /\ ModalIdle

\* the two mount effects: read the stored user, fetch the first page
Mount ==
    /\ ~mounted
    /\ mounted' = TRUE
    /\ currentUser' \in StoredUsers
    /\ fetchProjectRequests(backend, filters, currentPage, projectRequests)
    /\ sent' = {}
    /\ UNCHANGED <<selectedRequests, filters, currentPage, backend>>
    /\ UNCHANGED nonPageVars

\* the Refresh button
Refresh ==
    /\ mounted
    /\ fetchProjectRequests(backend, filters, currentPage, projectRequests)
    /\ sent' = {}
    /\ UNCHANGED <<mounted, currentUser, selectedRequests, filters,
                   currentPage, backend>>
    /\ UNCHANGED nonPageVars

\* handleFilterChange, followed by the effect on [currentPage, filters]
handleFilterChange(key, value) ==
    /\ mounted
    /\ value # filters[key]
    /\ LET changed == [filters EXCEPT ![key] = value]
           newFilters ==
             IF key = "status" /\ value = "deleted"
             THEN [changed EXCEPT !.showDeleted = TRUE]
             ELSE IF key = "status" /\ filters.status = "deleted"
                  THEN [changed EXCEPT !.showDeleted = FALSE]
                  ELSE changed
       IN  /\ filters' = newFilters
           /\ currentPage' = 1
           /\ fetchProjectRequests(backend, newFilters, 1, projectRequests)
    /\ sent' = {}
    /\ UNCHANGED <<mounted, currentUser, selectedRequests, backend>>
    /\ UNCHANGED nonPageVars

\* the pagination buttons, followed by the effect on [currentPage, filters]
setCurrentPage(page) ==
    /\ mounted
    /\ totalPages > 1
    /\ page \in 1..totalPages
    /\ page # currentPage
    /\ currentPage' = page
    /\ fetchProjectRequests(backend, filters, page, projectRequests)
    /\ sent' = {}
    /\ UNCHANGED <<mounted, currentUser, selectedRequests, filters, backend>>
    /\ UNCHANGED nonPageVars

\* prev.includes(id) ? prev.filter(x => x !== id) : [...prev, id]
handleSelectRequest(k) ==
    /\ mounted
    /\ SelectionColumnShown
    /\ k \in 1..Len(projectRequests)
    /\ LET id == projectRequests[k]._id
       IN  selectedRequests' =
             IF \E j \in 1..Len(selectedRequests) : selectedRequests[j] = id
             THEN SelectSeq(selectedRequests, LAMBDA x : x # id)
             ELSE Append(selectedRequests, id)
    /\ sent' = {}
    /\ UNCHANGED <<mounted, currentUser, projectRequests, filters,
                   currentPage, totalPages, backend, failedFetches>>
    /\ UNCHANGED nonPageVars

handleSelectAll ==
    /\ mounted
    /\ SelectionColumnShown
    /\ selectedRequests' =
         IF Len(selectedRequests) = Len(projectRequests)
         THEN <<>>
         ELSE [k \in 1..Len(projectRequests) |-> projectRequests[k]._id]
    /\ selectedRequests' # selectedRequests
    /\ sent' = {}
    /\ UNCHANGED <<mounted, currentUser, projectRequests, filters,
                   currentPage, totalPages, backend, failedFetches>>
    /\ UNCHANGED nonPageVars

\* the "Clear selection" button of the bulk bar
ClearSelection ==
    /\ mounted
    /\ BulkBarShown
    /\ selectedRequests' = <<>>
    /\ sent' = {}
    /\ UNCHANGED <<mounted, currentUser, projectRequests, filters,
                   currentPage, totalPages, backend, failedFetches>>
    /\ UNCHANGED nonPageVars

\* a handler sends request m; on success it refreshes the list
SendThenRefresh(m) ==
    /\ sent' = {m}
    /\ \E success \in BOOLEAN :
         /\ success => CanAccept(backend, m)
         /\ backend' = IF success THEN Accepted(backend, m) ELSE backend
         /\ IF success
            THEN fetchProjectRequests(backend', filters, currentPage,
                                      projectRequests)
            ELSE UNCHANGED <<projectRequests, totalPages, failedFetches>>

\* the row's Approve button and handleApproveRequest
handleApproveRequest(k) ==
    /\ mounted
    /\ RowActionsShown(k)
    /\ Truthy(RowPermissions(k).canChangeStatus)
    /\ projectRequests[k].status # "approved"
    /\ SendThenRefresh(Request(projectRequests[k]._id, "approve", "approved"))
    /\ UNCHANGED <<mounted, currentUser, selectedRequests, filters,
                   currentPage>>
    /\ UNCHANGED nonPageVars

\* the row's Reject button (with a reason entered) and handleRejectRequest
handleRejectRequest(k) ==
    /\ mounted
    /\ RowActionsShown(k)
    /\ Truthy(RowPermissions(k).canChangeStatus)
    /\ projectRequests[k].status # "rejected"
    /\ SendThenRefresh(Request(projectRequests[k]._id, "reject", "rejected"))
    /\ UNCHANGED <<mounted, currentUser, selectedRequests, filters,
                   currentPage>>
    /\ UNCHANGED nonPageVars

\* a button of row k calls handleUpdateStatus(id, status): the three status
\* buttons, or the admin's prompt on an approved request
StatusButtonShown(k, status) ==
    /\ RowActionsShown(k)
    /\ \/ /\ Truthy(RowPermissions(k).canChangeStatus)
          /\ status \in {"under_review", "on_hold", "pending"}
          /\ projectRequests[k].status # status
       \/ /\ OptGet(currentUser, "role") = Str("admin")
          /\ projectRequests[k].status = "approved"
          /\ status \in {"pending", "under_review", "rejected", "on_hold"}

\* handleUpdateStatus: refuses when the listed request may not be changed
handleUpdateStatus(k, status) ==
    /\ mounted
    /\ StatusButtonShown(k, status)
    /\ LET id == projectRequests[k]._id
           request == Find(id)
       IN  IF Truthy(request) /\ ~Truthy(canChangeStatus(request, currentUser))
           THEN /\ sent' = {}
                /\ UNCHANGED <<projectRequests, totalPages, backend,
                               failedFetches>>
           ELSE SendThenRefresh(Request(id, "status", status))
    /\ UNCHANGED <<mounted, currentUser, selectedRequests, filters,
                   currentPage>>
    /\ UNCHANGED nonPageVars

\* the row's Delete button (confirmed) and handleDeleteProjectRequest
handleDeleteProjectRequest(k) ==
    /\ mounted
    /\ RowActionsShown(k)
    /\ Truthy(RowPermissions(k).canDelete)
    /\ LET id == projectRequests[k]._id
           m == Request(id, "delete", "")
       IN  /\ sent' = {m}
           /\ \E success \in BOOLEAN :
                /\ success => CanAccept(backend, m)
                /\ IF success
                   THEN /\ backend' = Accepted(backend, m)
                        /\ selectedRequests' =
                             SelectSeq(selectedRequests, LAMBDA x : x # id)
                        /\ fetchProjectRequests(
                             backend', filters, currentPage,
                             SelectSeq(projectRequests,
                                       LAMBDA r : r._id # id))
                   ELSE UNCHANGED <<backend, selectedRequests,
                                    projectRequests, totalPages,
                                    failedFetches>>
    /\ UNCHANGED <<mounted, currentUser, filters, currentPage>>
    /\ UNCHANGED nonPageVars

\* the request handleBulkAction builds for one selected id
BulkRequest(action, id) ==
    CASE action = "approve" -> Request(id, "approve", "approved")
      [] action = "reject"  -> Request(id, "reject", "rejected")
      [] action = "delete"  -> Request(id, "delete", "")
      [] OTHER              -> Request(id, "status", action)

BulkActions == {"approve", "reject", "under_review", "on_hold", "pending",
                "delete"}

\* the backend after the loop: the requests at the positions in acc accepted
RECURSIVE BulkAccepted(_, _, _, _)
BulkAccepted(bk, action, k, acc) ==
    IF k > Len(selectedRequests) THEN bk
    ELSE BulkAccepted(
           IF k \in acc
           THEN Accepted(bk, BulkRequest(action, selectedRequests[k]))
           ELSE bk,
           action, k + 1, acc)

\* handleBulkAction (confirmed): one request per selected id, in order, then
\* the selection is cleared and the list refreshed
handleBulkAction(action) ==
    /\ mounted
    /\ BulkBarShown
    /\ sent' = {BulkRequest(action, selectedRequests[k]) :
                   k \in 1..Len(selectedRequests)}
    /\ \E acc \in SUBSET (1..Len(selectedRequests)) :
         /\ \A k \in acc :
              CanAccept(backend, BulkRequest(action, selectedRequests[k]))
         /\ backend' = BulkAccepted(backend, action, 1, acc)
    /\ selectedRequests' = <<>>
    /\ fetchProjectRequests(backend', filters, currentPage, projectRequests)
    /\ UNCHANGED <<mounted, currentUser, filters, currentPage>>
    /\ UNCHANGED nonPageVars

NextPage ==
    \/ Mount
    \/ Refresh
    \/ \E value \in FilterStatusValues : handleFilterChange("status", value)
    \/ \E value \in BOOLEAN : handleFilterChange("showDeleted", value)
    \/ \E page \in 1..NumRequests : setCurrentPage(page)
    \/ \E k \in 1..PageSize : handleSelectRequest(k)
    \/ handleSelectAll
    \/ ClearSelection
    \/ \E k \in 1..PageSize : handleApproveRequest(k)
    \/ \E k \in 1..PageSize : handleRejectRequest(k)
    \/ \E k \in 1..PageSize, status \in Statuses : handleUpdateStatus(k, status)
    \/ \E k \in 1..PageSize : handleDeleteProjectRequest(k)
    \/ \E action \in BulkActions : handleBulkAction(action)

SpecPage == InitPage /\ [][NextPage]_vars

(***************************************************************************)
(* Proxy routes: /api/users/[id] (GET, PUT, DELETE) and                    *)
(* /api/project-requests/[id]/document (GET).  A handler call is one       *)
(* action: the inbound call and the backend's behaviour are drawn, the     *)
(* handler runs to its return.  A step that throws yields Thrown, which    *)
(* the handler's outer catch turns into the 500 response.                  *)
(***************************************************************************)
backendUrl == "https://newton-botics-servers-chi.vercel.app"

\* the value of an expression whose evaluation threw
Thrown == [t |-> "thrown"]
\* the backend call did not complete: fetch() rejected
Rejected == [t |-> "rejected"]
\* the text is not JSON: JSON.parse throws
Unparsable == [t |-> "unparsable"]

EmptyObject == [t |-> "object"]

\* a backend body: its text, what JSON.parse makes of it, and whether the
\* text contains the markers the PUT handler looks for
\*   vercel: 'DEPLOYMENT_NOT_FOUND' or 'the deployment could not be found'
\*   html:   '<html', '<!DOCTYPE' or 'the deploy'
BackendBodies ==
    { [text |-> "", parsed |-> Unparsable, vercel |-> FALSE, html |-> FALSE],
      [text |-> "  ", parsed |-> Unparsable, vercel |-> FALSE,
       html |-> FALSE],
      [text |-> "{\"success\":true,\"data\":{}}",
       parsed |-> [t |-> "object", success |-> Bool(TRUE),
                   data |-> EmptyObject],
       vercel |-> FALSE, html |-> FALSE],
      [text |-> "{\"message\":\"Email already in use\"}",
       parsed |-> [t |-> "object", message |-> Str("Email already in use")],
       vercel |-> FALSE, html |-> FALSE],
      [text |-> "{\"error\":{\"message\":\"Validation failed\"}}",
       parsed |-> [t |-> "object",
                   error |-> [t |-> "object",
                              message |-> Str("Validation failed")]],
       vercel |-> FALSE, html |-> FALSE],
      [text |-> "null", parsed |-> Null, vercel |-> FALSE, html |-> FALSE],
      [text |-> "{\"success\":", parsed |-> Unparsable, vercel |-> FALSE,
       html |-> FALSE],
      [text |-> "<html><body>Bad Gateway</body></html>",
       parsed |-> Unparsable, vercel |-> FALSE, html |-> TRUE],
      [text |-> "The deployment could not be found on Vercel.",
       parsed |-> Unparsable, vercel |-> TRUE, html |-> TRUE],
      [text |-> "Service Unavailable", parsed |-> Unparsable,
       vercel |-> FALSE, html |-> FALSE] }

\* the statuses a backend answers with; 302 stands for a redirect that
\* fetch did not follow
BackendStatuses == {200, 201, 204, 302, 400, 401, 403, 404, 500}

\* the content-type header of the backend's answer, "" when there is none
ContentTypes == {"application/json; charset=utf-8", "text/html", ""}

\* the backend's behaviour: the call rejects, or it completes with a
\* status, a content type and a body; readFails: reading the body stream
\* rejects; cloudinary: the final url of the answer is on cloudinary.com
BackendAnswers ==
    {Rejected} \cup
    [t : {"answer"}, status : BackendStatuses, contentType : ContentTypes,
     body : BackendBodies, readFails : BOOLEAN, cloudinary : BOOLEAN]

\* an inbound call: the authorization header (null when absent), the id
\* route parameter, and whether request.json() can parse the call's body
InboundCalls ==
    [t : {"call"},
     handler : {"users.GET", "users.PUT", "users.DELETE", "document.GET"},
     token : {Null, Str(""), Str("Bearer t1")},
     id : {"u1", "", " "},
     bodyReadable : BOOLEAN]

\* response.ok
Ok(status) == status >= 200 /\ status <= 299

\* contentType.includes('application/json')
IsJsonType(contentType) == contentType = "application/json; charset=utf-8"

\* s.trim(), on the texts of this model: a text is either all whitespace
\* or has no whitespace at either end
Trim(s) == IF s \in {" ", "  "} THEN "" ELSE s

\* variant: only the empty text counts as an empty body
IsBlank_emptyOnly(text) == text = ""

\* !text || text.trim().length === 0
IsBlank(text) == text = "" \/ Trim(text) = ""

\* o.f : reading a property of null or undefined throws a TypeError
Get(o, f) ==
    IF o.t \in {"undefined", "null"} THEN Thrown
    ELSE IF f \in DOMAIN o THEN o[f] ELSE Undefined

\* NextResponse.json(body, { status })
JsonResponse(status, body) ==
    [t |-> "response", kind |-> "json", status |-> status, body |-> body]

\* variant: a missing token is answered with 403
NoTokenResponse_forbidden ==
    JsonResponse(403, [t |-> "object", success |-> Bool(FALSE),
                       message |-> Str("No authorization token provided")])

\* the answer to a call without a token
NoTokenResponse ==
    JsonResponse(401, [t |-> "object", success |-> Bool(FALSE),
                       message |-> Str("No authorization token provided")])

\* the answer of every outer catch block
InternalServerError ==
    JsonResponse(500, [t |-> "object", success |-> Bool(FALSE),
                       message |-> Str("Internal server error")])

\* what a handler call comes to: the response, if one is returned, and the
\* number of outbound calls made
Outcome(response, outbound) == [response |-> response, outbound |-> outbound]

\* try { ... } catch (error) { return 500 }
Catch(outcome) ==
    IF outcome.response = Thrown
    THEN Outcome(InternalServerError, outcome.outbound)
    ELSE outcome

\* data.message || data.error?.message
BackendMessage(data) ==
    IF Get(data, "message") = Thrown THEN Thrown
    ELSE JsOr(Get(data, "message"), OptGet(Get(data, "error"), "message"))

\* "(<status>)", as the template literals print it
InParens(status) == "(" \o ToString(status) \o ")"

NotFoundText(id) == "User with ID \"" \o id \o "\" not found"

\* users GET and DELETE: the data made of the backend's body
ReadBody(bk, id) ==
    IF bk.readFails
    THEN [t |-> "object",
          message |-> Str("Failed to read backend response "
                          \o InParens(bk.status))]
    ELSE IF IsBlank(bk.body.text) THEN EmptyObject
    ELSE IF IsJsonType(bk.contentType)
    THEN IF bk.body.parsed = Unparsable
         THEN [t |-> "object",
               message |-> Str("Backend returned invalid JSON "
                               \o InParens(bk.status)),
               error |-> Str("Invalid JSON response from backend")]
         ELSE bk.body.parsed
    ELSE [t |-> "object",
          message |-> IF bk.status = 404 THEN Str(NotFoundText(id))
                      ELSE Str("Backend returned " \o ToString(bk.status)
                               \o " error"),
          error |-> Str("Non-JSON response from backend")]

\* users GET and DELETE: if (response.ok) ... else ...
Forward(bk, data, failed) ==
    IF Ok(bk.status) THEN JsonResponse(200, data)
    ELSE IF BackendMessage(data) = Thrown THEN Thrown
    ELSE JsonResponse(bk.status,
            [t |-> "object", success |-> Bool(FALSE),
             message |-> JsOr(BackendMessage(data),
                              Str(failed \o " " \o InParens(bk.status)))])

\* export async function GET (users/[id])
UsersGET(req, bk) ==
    Catch(IF ~Truthy(req.token) THEN Outcome(NoTokenResponse, 0)
          ELSE IF bk = Rejected THEN Outcome(Thrown, 1)
          ELSE Outcome(Forward(bk, ReadBody(bk, req.id),
                               "Failed to fetch user"), 1))

\* export async function DELETE (users/[id])
UsersDELETE(req, bk) ==
    Catch(IF ~Truthy(req.token) THEN Outcome(NoTokenResponse, 0)
          ELSE IF bk = Rejected THEN Outcome(Thrown, 1)
          ELSE Outcome(Forward(bk, ReadBody(bk, req.id),
                               "Failed to deactivate user"), 1))

\* users PUT: the data made of the backend's body
PutReadBody(bk, id) ==
    IF bk.readFails
    THEN [t |-> "object",
          message |-> IF bk.status = 404 THEN Str(NotFoundText(id))
                      ELSE Str("Failed to read backend response "
                               \o InParens(bk.status))]
    ELSE IF IsBlank(bk.body.text) THEN EmptyObject
    ELSE IF IsJsonType(bk.contentType)
    THEN IF bk.body.parsed = Unparsable
         THEN [t |-> "object",
               message |-> IF bk.status = 404 THEN Str(NotFoundText(id))
                           ELSE Str("Backend returned invalid JSON "
                                    \o InParens(bk.status)),
               error |-> Str("Invalid JSON response from backend")]
         ELSE bk.body.parsed
    ELSE IF bk.body.vercel
    THEN [t |-> "object",
          message |-> Str("Backend deployment not found. The backend URL \""
                          \o backendUrl \o "\" does not exist on Vercel. "
                          \o "Please check your BACKEND_URL environment "
                          \o "variable."),
          error |-> Str("Vercel deployment not found"),
          backendUrl |-> Str(backendUrl),
          suggestion |-> Str("Please verify your BACKEND_URL environment "
                             \o "variable is set to the correct backend "
                             \o "deployment URL.")]
    ELSE [t |-> "object",
          message |->
            IF bk.status = 404
            THEN Str(NotFoundText(id) \o ". The backend endpoint may not "
                     \o "exist or the user was deleted.")
            ELSE Str("Backend returned " \o ToString(bk.status) \o " error"
                     \o (IF bk.body.html THEN " (HTML error page)" ELSE "")),
          error |->
            IF bk.body.html
            THEN Str("Backend returned HTML error page instead of JSON")
            ELSE Str("Non-JSON response: " \o bk.contentType),
          responsePreview |-> Str(bk.body.text)]

\* users PUT: the message of the error envelope
PutErrorMessage(status, data, id) ==
    LET message == BackendMessage(data)  \* let errorMessage
    IN  IF message = Thrown THEN Thrown
        ELSE IF status = 404
        THEN IF Get(data, "error") = Str("Vercel deployment not found")
             THEN JsOr(Get(data, "message"),
                       Str("Backend deployment not found at " \o backendUrl
                           \o ". Please check your BACKEND_URL environment "
                           \o "variable."))
             ELSE JsOr(message,
                       Str(NotFoundText(id) \o ". The user may have been "
                           \o "deleted or the ID is incorrect."))
        ELSE IF status = 401
        THEN JsOr(message, Str("Unauthorized. Please check your "
                                    \o "authentication token."))
        ELSE IF status = 403
        THEN JsOr(message, Str("Forbidden. You do not have permission "
                                    \o "to update this user."))
        ELSE IF ~Truthy(message)
        THEN Str("Failed to update user " \o InParens(status))
        ELSE message

\* users PUT: if (response.ok) ... else ...
PutForward(bk, data, id) ==
    IF Ok(bk.status) THEN JsonResponse(200, data)
    ELSE IF PutErrorMessage(bk.status, data, id) = Thrown THEN Thrown
    ELSE JsonResponse(bk.status,
            [t |-> "object", success |-> Bool(FALSE),
             message |-> PutErrorMessage(bk.status, data, id),
             details |-> data, userId |-> Str(id)])

\* export async function PUT (users/[id])
UsersPUT(req, bk) ==
    Catch(IF ~Truthy(req.token) THEN Outcome(NoTokenResponse, 0)
          ELSE IF req.id = "" \/ Trim(req.id) = ""
          THEN Outcome(JsonResponse(400,
                          [t |-> "object", success |-> Bool(FALSE),
                           message |-> Str("Invalid user ID provided")]), 0)
          ELSE IF ~req.bodyReadable THEN Outcome(Thrown, 0)
          ELSE IF bk = Rejected THEN Outcome(Thrown, 1)
          ELSE Outcome(PutForward(bk, PutReadBody(bk, req.id), req.id), 1))

\* document GET: response.json().catch(() => ({}))
DocumentErrorData(bk) ==
    IF bk.readFails \/ bk.body.parsed = Unparsable THEN EmptyObject
    ELSE bk.body.parsed

\* export async function GET (project-requests/[id]/document)
DocumentGET(req, bk) ==
    Catch(IF ~Truthy(req.token) THEN Outcome(NoTokenResponse, 0)
          ELSE IF bk = Rejected THEN Outcome(Thrown, 1)
          ELSE IF bk.cloudinary \/ bk.status = 302 \/ bk.status = 301
          THEN Outcome([t |-> "response", kind |-> "redirect",
                        status |-> 307, body |-> Undefined], 1)
          ELSE IF Ok(bk.status)
          THEN IF bk.readFails THEN Outcome(Thrown, 1)
               ELSE Outcome([t |-> "response", kind |-> "file",
                             status |-> 200,
                             body |-> [t |-> "blob",
                                       text |-> bk.body.text]], 1)
          ELSE IF Get(DocumentErrorData(bk), "message") = Thrown
          THEN Outcome(Thrown, 1)
          ELSE Outcome(JsonResponse(bk.status,
                          [t |-> "object", success |-> Bool(FALSE),
                           message |->
                             JsOr(Get(DocumentErrorData(bk), "message"),
                                  Str("Failed to fetch document"))]), 1))

(***************************************************************************)
(* Proxy harness: one inbound call and the backend's behaviour are drawn,  *)
(* and the handler the call is routed to runs.                             *)
(***************************************************************************)
InitProxy ==
    /\ proxyRequest \in InboundCalls
    /\ proxyBackend \in BackendAnswers
    /\ proxyResponse = NoResponse
    /\ proxyOutbound = 0
    /\ evalRequest = Undefined
    /\ evalUser = Undefined
    /\ evalResult = NotEvaluated
    /\ PageIdle
    /\ BadgeIdle
    /\ UsersIdle
    /\ HookIdle
    /\ ModalIdle

\* the handler's outcome becomes the state after the call
Handled(handler, outcome) ==
    /\ proxyRequest.handler = handler
    /\ proxyResponse = NoResponse
    /\ proxyResponse' = outcome.response
    /\ proxyOutbound' = outcome.outbound
    /\ UNCHANGED <<proxyRequest, proxyBackend>>
    /\ UNCHANGED <<evalVars, pageVars, badgeVars,
                   usersVars, hookVars, modalVars>>

CallUsersGET == Handled("users.GET", UsersGET(proxyRequest, proxyBackend))
CallUsersPUT == Handled("users.PUT", UsersPUT(proxyRequest, proxyBackend))
CallUsersDELETE ==
    Handled("users.DELETE", UsersDELETE(proxyRequest, proxyBackend))
CallDocumentGET ==
    Handled("document.GET", DocumentGET(proxyRequest, proxyBackend))

NextProxy ==
    \/ CallUsersGET
    \/ CallUsersPUT
    \/ CallUsersDELETE
    \/ CallDocumentGET

SpecProxy == InitProxy /\ [][NextProxy]_vars

(***************************************************************************)
(* Users page: fetchUsers drains the backend's list page by page.  A run   *)
(* of fetchUsers is a record of its local variables; it advances when the  *)
(* answer to its outstanding request arrives.  Runs are not cancelled and  *)
(* may overlap.                                                            *)
(***************************************************************************)
\* a user as the backend lists it: the identifier is in id, in _id, or
\* missing
UserKinds == {"id", "_id", "none"}
\* firstName and role of the i-th user
FirstNames == <<"Ann", "Bob", "Abe", "Eve">>
Roles == <<"admin", "member", "member", "admin">>
BackendUser(i, kind) ==
    [t |-> "object",
     id |-> IF kind = "id" THEN Str("k" \o ToString(i)) ELSE Undefined,
     _id |-> IF kind = "_id" THEN Str("k" \o ToString(i)) ELSE Undefined,
     firstName |-> Str(FirstNames[i]),
     role |-> Str(Roles[i])]
UsersBackends ==
    UNION {{[i \in 1..n |-> BackendUser(i, kinds[i])] :
               kinds \in [1..n -> UserKinds]} : n \in 0..MaxUsers}

\* data.data?.pagination of a page: absent, or with a hasMore flag
Paginations ==
    {Undefined, [t |-> "object", hasMore |-> Bool(TRUE)],
     [t |-> "object", hasMore |-> Bool(FALSE)]}

\* const basePath = activeTab === 'active' ? ... : ...
basePath(tab) ==
    IF tab = "active" THEN "/api/users" ELSE "/api/users/deactivated"

\* the list the backend serves under the path
BackendList(path) ==
    IF path = "/api/users" THEN usersBackend ELSE deactivatedBackend

\* the backend's slice for skip and limit
Slice(path, skip) ==
    SubSeq(BackendList(path), skip + 1,
           IF skip + limit < Len(BackendList(path)) THEN skip + limit
           ELSE Len(BackendList(path)))

\* an OK response to the request for skip: its parsed data
PageAnswers(path, skip) ==
    [t : {"page"}, users : {Slice(path, skip)}, pagination : Paginations]

\* a non-OK response: status, Retry-After header, parsed body (null when
\* response.json() fails)
ErrorAnswers ==
    [t : {"error"}, status : {429}, retryAfter : {Null, Str("30")},
     body : {Null}]
    \cup
    [t : {"error"}, status : {500}, retryAfter : {Null},
     body : {Null, [t |-> "object", message |-> Str("Database unavailable")],
             [t |-> "object", error |-> Str("Server error")]}]

\* fetch() rejected
NetworkFailure == [t |-> "network-failure"]

\* const resolvedId = typeof user.id === 'string' && user.id ? user.id : ...
resolvedId(user) ==
    IF Truthy(JsAnd(StrictEq(Str(TypeOf(user.id)), Str("string")), user.id))
    THEN user.id
    ELSE IF Truthy(JsAnd(StrictEq(Str(TypeOf(user._id)), Str("string")),
                         user._id))
    THEN user._id
    ELSE Str("")

\* rawUsers.map(...).filter(user => user.id)
normalizedUsers(rawUsers) ==
    SelectSeq([i \in DOMAIN rawUsers |->
                  [rawUsers[i] EXCEPT
                      !.id = JsOr(resolvedId(rawUsers[i]), Undefined),
                      !._id = JsOr(JsOr(rawUsers[i]._id,
                                        resolvedId(rawUsers[i])),
                                   Undefined)]],
              LAMBDA user : Truthy(user.id))

\* the message set for a non-OK response
ErrorText(answer) ==
    IF answer.status = 429
    THEN Str("Too many requests. Please wait "
             \o (IF Truthy(answer.retryAfter)
                 THEN answer.retryAfter.s \o " seconds" ELSE "a moment")
             \o " and try again.")
    ELSE JsOr(JsOr(OptGet(answer.body, "message"),
                   OptGet(answer.body, "error")),
              Str("Failed to fetch users"))

InitUsers ==
    /\ allUsers = <<>>
    /\ errorMessage = Null
    /\ isLoading = TRUE
    /\ location = "/users"
    /\ accessToken \in {Null, Str("t1")}
    /\ fetchRuns = <<>>
    /\ usersBackend \in UsersBackends
    /\ ViewAtRest
    /\ deactivatedBackend = <<>>
    /\ evalRequest = Undefined
    /\ evalUser = Undefined
    /\ evalResult = NotEvaluated
    /\ PageIdle
    /\ BadgeIdle
    /\ ProxyIdle
    /\ HookIdle
    /\ ModalIdle

\* fetchUsers up to its first await: the token check, the two state
\* updates, and the request for the first page (skip = 0)
StartFetchUsers(tab) ==
    /\ Len(fetchRuns) < MaxRuns
    /\ location = "/users"
    /\ IF ~Truthy(accessToken)
       THEN /\ location' = "/"
            /\ UNCHANGED <<errorMessage, isLoading, fetchRuns>>
       ELSE /\ errorMessage' = Null
            /\ isLoading' = TRUE
            /\ fetchRuns' = Append(fetchRuns,
                                   [pc |-> "awaiting", skip |-> 0,
                                    basePath |-> basePath(tab),
                                    allFetchedUsers |-> <<>>,
                                    requests |-> <<0>>,
                                    responses |-> <<>>])
            /\ UNCHANGED location
    /\ UNCHANGED <<allUsers, accessToken, usersBackend, deactivatedBackend>>

\* fetchUsers(), as the mount effect and the handlers of the page call it
fetchUsers ==
    /\ StartFetchUsers(activeTab)
    /\ UNCHANGED <<activeTab, searchQuery, debouncedSearchQuery, selectedRole,
                   usersCurrentPage, debounceTimer, viewActions>>
    /\ UNCHANGED <<evalVars, pageVars, badgeVars,
                   proxyVars, hookVars, modalVars>>

\* run r with the answer logged and the given changes to its locals
Logged(r, answer) ==
    [fetchRuns[r] EXCEPT !.responses = Append(@, answer)]

\* after the loop: setAllUsers(allFetchedUsers); setErrorMessage(null);
\* finally setIsLoading(false)
FinishRun(r, run) ==
    /\ fetchRuns' = [fetchRuns EXCEPT ![r] = [run EXCEPT !.pc = "done"]]
    /\ allUsers' = run.allFetchedUsers
    /\ errorMessage' = Null
    /\ isLoading' = FALSE

\* one turn of the while loop on an OK response: the page is normalised
\* and accumulated, hasMore is recomputed, and either the next page is
\* requested or the loop ends
ReceivePage(r) ==
    /\ r \in 1..Len(fetchRuns)
    /\ fetchRuns[r].pc = "awaiting"
    /\ \E data \in PageAnswers(fetchRuns[r].basePath, fetchRuns[r].skip) :
         LET run == Logged(r, data)
             users == normalizedUsers(data.users)
             hasMore == IF Len(users) = 0 THEN Bool(FALSE)
                        ELSE JsOr(OptGet(data.pagination, "hasMore"),
                                  Bool(Len(users) = limit))
             next == IF Len(users) = 0 THEN run
                     ELSE [run EXCEPT
                             !.allFetchedUsers = run.allFetchedUsers \o users,
                             !.skip = run.skip + limit]
         IN  IF Truthy(hasMore)
             THEN /\ fetchRuns' =
                        [fetchRuns EXCEPT
                           ![r] = [next EXCEPT
                                     !.requests = Append(@, next.skip)]]
                  /\ UNCHANGED <<allUsers, errorMessage, isLoading>>
             ELSE FinishRun(r, next)
    /\ UNCHANGED <<location, accessToken, usersBackend, viewVars>>
    /\ UNCHANGED <<evalVars, pageVars, badgeVars,
                   proxyVars, hookVars, modalVars>>

\* if (!response.ok) { ...setErrorMessage(...); break; } and the code after
\* the loop
ReceiveError(r) ==
    /\ r \in 1..Len(fetchRuns)
    /\ fetchRuns[r].pc = "awaiting"
    /\ \E answer \in ErrorAnswers :
         \* setErrorMessage(ErrorText(answer)) is overwritten by the
         \* setErrorMessage(null) that follows the loop
         /\ ErrorText(answer).t = "string"
         /\ FinishRun(r, Logged(r, answer))
    /\ UNCHANGED <<location, accessToken, usersBackend, viewVars>>
    /\ UNCHANGED <<evalVars, pageVars, badgeVars,
                   proxyVars, hookVars, modalVars>>

\* fetch rejects: catch (error) { setErrorMessage('Unable to load ...') }
ReceiveNetworkFailure(r) ==
    /\ r \in 1..Len(fetchRuns)
    /\ fetchRuns[r].pc = "awaiting"
    /\ fetchRuns' = [fetchRuns EXCEPT
                       ![r] = [Logged(r, NetworkFailure) EXCEPT
                                 !.pc = "done"]]
    /\ errorMessage' = Str("Unable to load users. Please try again.")
    /\ isLoading' = FALSE
    /\ UNCHANGED <<allUsers, location, accessToken, usersBackend, viewVars>>
    /\ UNCHANGED <<evalVars, pageVars, badgeVars,
                   proxyVars, hookVars, modalVars>>

NextUsers ==
    \/ fetchUsers
    \/ \E r \in 1..MaxRuns : ReceivePage(r)
    \/ \E r \in 1..MaxRuns : ReceiveError(r)
    \/ \E r \in 1..MaxRuns : ReceiveNetworkFailure(r)

SpecUsers == InitUsers /\ [][NextUsers]_vars

(***************************************************************************)
(* The users page's view: tab, filters, debounce and pagination            *)
(* (src/src/app/users/page.tsx).  The department filter is applied as the  *)
(* role filter is and resets the page in the same effect; the search looks *)
(* at the first name as it looks at the other texts.                       *)
(***************************************************************************)
Queries == {"", "a", "b"}
RoleChoices == {"", "admin", "member"}

\* the letters of name.toLowerCase()
LowerCaseLetters(name) ==
    CASE name = "Ann" -> {"a", "n"}
      [] name = "Bob" -> {"b", "o"}
      [] name = "Abe" -> {"a", "b", "e"}
      [] name = "Eve" -> {"e", "v"}

\* text.toLowerCase().includes(query), for a query of one lower-case letter
Includes(name, query) == query \in LowerCaseLetters(name)

\* the filter effect: let filtered = [...allUsers]; ...
filtered ==
    LET searched ==
            IF debouncedSearchQuery # ""
            THEN SelectSeq(allUsers,
                    LAMBDA user : Includes(user.firstName.s,
                                           debouncedSearchQuery))
            ELSE allUsers
    IN  IF selectedRole # ""
        THEN SelectSeq(searched, LAMBDA user : user.role = Str(selectedRole))
        ELSE searched

startIndex == (usersCurrentPage - 1) * USERS_PER_PAGE
endIndex == startIndex + USERS_PER_PAGE

\* setUsers(paginatedUsers)
paginatedUsers ==
    SubSeq(filtered, startIndex + 1,
           IF endIndex < Len(filtered) THEN endIndex ELSE Len(filtered))

\* setPagination({ total, ..., hasMore: endIndex < total })
paginationTotal == Len(filtered)
paginationHasMore == endIndex < Len(filtered)

InitUsersView ==
    /\ allUsers = <<>>
    /\ errorMessage = Null
    /\ isLoading = TRUE
    /\ location = "/users"
    /\ accessToken = Str("t1")
    /\ fetchRuns = <<>>
    /\ usersBackend \in {[i \in 1..n |-> BackendUser(i, "id")] :
                            n \in 0..MaxUsers}
    /\ deactivatedBackend \in {<<>>, <<BackendUser(MaxUsers + 1, "id")>>}
    /\ ViewAtRest
    /\ evalRequest = Undefined
    /\ evalUser = Undefined
    /\ evalResult = NotEvaluated
    /\ PageIdle
    /\ BadgeIdle
    /\ ProxyIdle
    /\ HookIdle
    /\ ModalIdle

ViewInUse ==
    /\ location = "/users"
    /\ viewActions < MaxViewActions

\* setSearchQuery(e.target.value): the reset effect sets page 1 and the
\* debounce effect replaces the pending timer
setSearchQuery(query) ==
    /\ ViewInUse
    /\ query # searchQuery
    /\ viewActions' = viewActions + 1
    /\ searchQuery' = query
    /\ usersCurrentPage' = 1
    /\ debounceTimer' = [t |-> "timer", value |-> query]
    /\ UNCHANGED <<activeTab, debouncedSearchQuery, selectedRole,
                   deactivatedBackend>>
    /\ UNCHANGED <<allUsers, errorMessage, isLoading, location, accessToken,
                   fetchRuns, usersBackend>>
    /\ UNCHANGED <<evalVars, pageVars, badgeVars, proxyVars, hookVars,
                   modalVars>>

\* the timer of the debounce effect fires after 400 ms
DebounceFires ==
    /\ debounceTimer # Null
    /\ debouncedSearchQuery' = debounceTimer.value
    /\ debounceTimer' = Null
    /\ UNCHANGED <<activeTab, searchQuery, selectedRole, usersCurrentPage,
                   deactivatedBackend, viewActions>>
    /\ UNCHANGED <<allUsers, errorMessage, isLoading, location, accessToken,
                   fetchRuns, usersBackend>>
    /\ UNCHANGED <<evalVars, pageVars, badgeVars, proxyVars, hookVars,
                   modalVars>>

\* setSelectedRole(e.target.value), with the reset effect
setSelectedRole(role) ==
    /\ ViewInUse
    /\ role # selectedRole
    /\ viewActions' = viewActions + 1
    /\ selectedRole' = role
    /\ usersCurrentPage' = 1
    /\ UNCHANGED <<activeTab, searchQuery, debouncedSearchQuery,
                   debounceTimer, deactivatedBackend>>
    /\ UNCHANGED <<allUsers, errorMessage, isLoading, location, accessToken,
                   fetchRuns, usersBackend>>
    /\ UNCHANGED <<evalVars, pageVars, badgeVars, proxyVars, hookVars,
                   modalVars>>

\* the Next button: setCurrentPage(prev => prev + 1)
ClickNext ==
    /\ ViewInUse
    /\ paginationTotal > 0
    /\ paginationHasMore
    /\ viewActions' = viewActions + 1
    /\ usersCurrentPage' = usersCurrentPage + 1
    /\ UNCHANGED <<activeTab, searchQuery, debouncedSearchQuery, selectedRole,
                   debounceTimer, deactivatedBackend>>
    /\ UNCHANGED <<allUsers, errorMessage, isLoading, location, accessToken,
                   fetchRuns, usersBackend>>
    /\ UNCHANGED <<evalVars, pageVars, badgeVars, proxyVars, hookVars,
                   modalVars>>

\* the Previous button: setCurrentPage(prev => Math.max(1, prev - 1))
ClickPrevious ==
    /\ ViewInUse
    /\ paginationTotal > 0
    /\ usersCurrentPage # 1
    /\ viewActions' = viewActions + 1
    /\ usersCurrentPage' =
          IF usersCurrentPage - 1 > 1 THEN usersCurrentPage - 1 ELSE 1
    /\ UNCHANGED <<activeTab, searchQuery, debouncedSearchQuery, selectedRole,
                   debounceTimer, deactivatedBackend>>
    /\ UNCHANGED <<allUsers, errorMessage, isLoading, location, accessToken,
                   fetchRuns, usersBackend>>
    /\ UNCHANGED <<evalVars, pageVars, badgeVars, proxyVars, hookVars,
                   modalVars>>

\* setActiveTab(tab): the reset effect sets page 1, and fetchUsers, which
\* depends on activeTab, is run again by its effect
setActiveTab(tab) ==
    /\ ViewInUse
    /\ tab # activeTab
    /\ viewActions' = viewActions + 1
    /\ activeTab' = tab
    /\ usersCurrentPage' = 1
    /\ StartFetchUsers(tab)
    /\ UNCHANGED <<searchQuery, debouncedSearchQuery, selectedRole,
                   debounceTimer>>
    /\ UNCHANGED <<evalVars, pageVars, badgeVars, proxyVars, hookVars,
                   modalVars>>

NextUsersView ==
    \/ NextUsers
    \/ \E query \in Queries : setSearchQuery(query)
    \/ DebounceFires
    \/ \E role \in RoleChoices : setSelectedRole(role)
    \/ ClickNext
    \/ ClickPrevious
    \/ \E tab \in {"active", "deactivated"} : setActiveTab(tab)

SpecUsersView == InitUsersView /\ [][NextUsersView]_vars

(***************************************************************************)
(* useNotifications (src/src/hooks/useNotifications.ts) over the           *)
(* notification service (src/src/services/notificationService.ts).         *)
(* The backend holds NumNotifications notifications, identified by their   *)
(* position, and answers a page request with the slice asked for, its own  *)
(* read counts and hasMore.                                                *)
(***************************************************************************)
NotificationIds == 1..NumNotifications
LimitValues == {Undefined, Num(0), Num(1), Num(-1)}
Origins == {"effect", "refetch", "loadMore"}

\* const [...] = useState(...) of the hook
InitialHook ==
    [notifications |-> <<>>,
     stats |-> [total |-> 0, unread |-> 0, read |-> 0],
     loading |-> TRUE,
     error |-> Null,
     hasMore |-> FALSE,
     currentSkip |-> 0]

\* params.limit || 20
limitOrDefault == JsOr(params.limit, Num(DefaultLimit)).v

\* the dependencies of the fetch effect that the model distinguishes; the
\* identity of fetchNotifications changes with params.limit and currentSkip
Deps == [t |-> "deps", limit |-> params.limit,
         currentSkip |-> hook.currentSkip]
EffectPending == effectDeps # Deps

RECURSIVE CountRead(_, _)
CountRead(flags, n) ==
    IF n = 0 THEN 0
    ELSE CountRead(flags, n - 1) + (IF flags[n] THEN 1 ELSE 0)

\* stats of the backend's notifications
BackendStats ==
    LET read == CountRead(notifBackend, NumNotifications)
    IN  [total |-> NumNotifications,
         unread |-> NumNotifications - read,
         read |-> read]

\* the page of the backend from skip on, at most lim long
NotificationsSlice(skip, lim) ==
    LET last == IF skip + lim < NumNotifications THEN skip + lim
                ELSE NumNotifications
    IN  [k \in 1..(IF last > skip THEN last - skip ELSE 0) |->
            [id |-> skip + k, read |-> notifBackend[skip + k]]]

HttpError == Str("HTTP error! status: 500")
NoTokenError == Str("No authentication token found")

\* what getNotifications resolves to or throws for the request q
NotificationAnswers(q) ==
    {[t |-> "error", message |-> HttpError]} \cup
    {[t |-> "page",
      success |-> TRUE,
      notifications |-> NotificationsSlice(q.skip, q.limit),
      stats |-> BackendStats,
      hasMore |-> q.limit > 0 /\ q.skip + q.limit < NumNotifications]}

InitNotifications ==
    /\ hook = InitialHook
    /\ params \in [limit : LimitValues]
    /\ effectDeps = Null
    /\ inFlight = <<>>
    /\ lastCall = [call |-> "mount"]
    /\ notifBackend \in [NotificationIds -> BOOLEAN]
    /\ notifToken \in BOOLEAN
    /\ userActions = 0
    /\ evalRequest = Undefined
    /\ evalUser = Undefined
    /\ evalResult = NotEvaluated
    /\ PageIdle
    /\ BadgeIdle
    /\ ProxyIdle
    /\ UsersIdle
    /\ ModalIdle

\* fetchNotifications(reset) up to its await, called on the state h after
\* the call c; without a token makeRequest throws before any request
fetchNotifications(h, c, reset, origin) ==
    LET skip == IF reset THEN 0 ELSE h.currentSkip
    IN  IF notifToken
        THEN /\ hook' = [h EXCEPT !.loading = TRUE, !.error = Null]
             /\ lastCall' = c
             /\ inFlight' = Append(inFlight,
                   [origin |-> origin, reset |-> reset,
                    skip |-> skip, limit |-> limitOrDefault])
        ELSE /\ hook' = [h EXCEPT !.loading = FALSE, !.error = NoTokenError]
             /\ lastCall' = c
             /\ inFlight' = inFlight

\* useEffect(..., [fetchNotifications, params.limit])
FetchEffect ==
    /\ hook # Null
    /\ EffectPending
    /\ effectDeps' = Deps
    /\ IF limitOrDefault > 0
       THEN fetchNotifications(hook, lastCall, TRUE, "effect")
       ELSE UNCHANGED <<hook, lastCall, inFlight>>
    /\ UNCHANGED <<params, notifBackend, notifToken, userActions>>
    /\ UNCHANGED <<evalVars, pageVars, badgeVars,
                   proxyVars, usersVars, modalVars>>

\* the sequence s without its i-th element
Without(s, i) == SubSeq(s, 1, i - 1) \o SubSeq(s, i + 1, Len(s))

\* fetchNotifications from its await on, for the i-th request in flight
ReceiveNotifications(i) ==
    LET q == inFlight[i] IN
    /\ ~EffectPending
    /\ \E answer \in NotificationAnswers(q) :
          IF answer.t = "page"
          THEN hook' =
                 [hook EXCEPT
                    !.notifications =
                        IF q.reset THEN answer.notifications
                        ELSE hook.notifications \o answer.notifications,
                    !.currentSkip =
                        IF q.reset THEN Len(answer.notifications)
                        ELSE hook.currentSkip + Len(answer.notifications),
                    !.stats = answer.stats,
                    !.hasMore = answer.hasMore,
                    !.loading = FALSE]
          ELSE hook' = [hook EXCEPT !.error = answer.message,
                                    !.loading = FALSE]
    /\ inFlight' = Without(inFlight, i)
    /\ UNCHANGED <<params, effectDeps, lastCall, notifBackend, notifToken,
                   userActions>>
    /\ UNCHANGED <<evalVars, pageVars, badgeVars,
                   proxyVars, usersVars, modalVars>>

\* notifications.map(notif => notif._id === id ? {...notif, read: true} : notif)
MarkRead(list, ids) ==
    [k \in 1..Len(list) |->
        IF list[k].id \in ids THEN [list[k] EXCEPT !.read = TRUE]
        ELSE list[k]]

\* markAsRead(id), with the answer of the service
markAsRead(id) ==
    /\ hook # Null
    /\ ~EffectPending
    /\ userActions < MaxUserActions
    /\ userActions' = userActions + 1
    /\ \E ok \in {b \in BOOLEAN : b => notifToken} :
          /\ IF ok
             THEN /\ hook' =
                       [hook EXCEPT
                          !.notifications = MarkRead(hook.notifications, {id}),
                          !.stats.unread =
                              IF hook.stats.unread - 1 > 0
                              THEN hook.stats.unread - 1 ELSE 0,
                          !.stats.read = hook.stats.read + 1]
                  /\ notifBackend' = [notifBackend EXCEPT ![id] = TRUE]
             ELSE /\ hook' = [hook EXCEPT !.error =
                                 IF notifToken THEN HttpError
                                 ELSE NoTokenError]
                  /\ UNCHANGED notifBackend
          /\ lastCall' = [call |-> "markAsRead", id |-> id, ok |-> ok]
    /\ UNCHANGED <<params, effectDeps, inFlight, notifToken>>
    /\ UNCHANGED <<evalVars, pageVars, badgeVars,
                   proxyVars, usersVars, modalVars>>

\* markAllAsRead(), with the answer of the service
markAllAsRead ==
    /\ hook # Null
    /\ ~EffectPending
    /\ userActions < MaxUserActions
    /\ userActions' = userActions + 1
    /\ \E outcome \in IF notifToken THEN {"success", "refused", "thrown"}
                      ELSE {"thrown"} :
          /\ CASE outcome = "success" ->
                    /\ hook' =
                         [hook EXCEPT
                            !.notifications =
                                MarkRead(hook.notifications, NotificationIds),
                            !.stats.unread = 0,
                            !.stats.read = hook.stats.total]
                    /\ notifBackend' = [i \in NotificationIds |-> TRUE]
               [] outcome = "refused" ->
                    UNCHANGED <<hook, notifBackend>>
               [] outcome = "thrown" ->
                    /\ hook' = [hook EXCEPT !.error =
                                   IF notifToken THEN HttpError
                                   ELSE NoTokenError]
                    /\ UNCHANGED notifBackend
          /\ lastCall' = [call |-> "markAllAsRead",
                          ok |-> outcome = "success"]
    /\ UNCHANGED <<params, effectDeps, inFlight, notifToken>>
    /\ UNCHANGED <<evalVars, pageVars, badgeVars,
                   proxyVars, usersVars, modalVars>>

\* refetch()
refetch ==
    /\ hook # Null
    /\ ~EffectPending
    /\ userActions < MaxUserActions
    /\ userActions' = userActions + 1
    /\ fetchNotifications([hook EXCEPT !.currentSkip = 0],
                          [call |-> "refetch"],
                          TRUE, "refetch")
    /\ UNCHANGED <<params, effectDeps, notifBackend, notifToken>>
    /\ UNCHANGED <<evalVars, pageVars, badgeVars,
                   proxyVars, usersVars, modalVars>>

\* loadMore()
loadMore ==
    /\ hook # Null
    /\ ~EffectPending
    /\ userActions < MaxUserActions
    /\ userActions' = userActions + 1
    /\ ~hook.loading /\ hook.hasMore
    /\ fetchNotifications(hook, [call |-> "loadMore"],
                          FALSE, "loadMore")
    /\ UNCHANGED <<params, effectDeps, notifBackend, notifToken>>
    /\ UNCHANGED <<evalVars, pageVars, badgeVars,
                   proxyVars, usersVars, modalVars>>

\* the component renders the hook with another params.limit
ChangeParams ==
    /\ hook # Null
    /\ ~EffectPending
    /\ userActions < MaxUserActions
    /\ userActions' = userActions + 1
    /\ \E l \in LimitValues \ {params.limit} :
          params' = [params EXCEPT !.limit = l]
    /\ lastCall' = [call |-> "params"]
    /\ UNCHANGED <<hook, effectDeps, inFlight, notifBackend, notifToken>>
    /\ UNCHANGED <<evalVars, pageVars, badgeVars,
                   proxyVars, usersVars, modalVars>>

NextNotifications ==
    \/ FetchEffect
    \/ \E i \in 1..Len(inFlight) : ReceiveNotifications(i)
    \/ \E id \in NotificationIds : markAsRead(id)
    \/ markAllAsRead
    \/ refetch
    \/ loadMore
    \/ ChangeParams

SpecNotifications == InitNotifications /\ [][NextNotifications]_vars

(***************************************************************************)
(* EditUserModal (src/src/components/EditUserModal.tsx): the form state,   *)
(* its initialisation from the user prop, and handleSubmit with its two    *)
(* PUT requests.  The form holds one field of each kind the component      *)
(* treats alike: firstName stands for the text fields initialised with     *)
(* `|| ''` (lastName, role, department, bio, studentId), isActive for the  *)
(* booleans initialised with `??` (emailVerified), skills for the arrays   *)
(* (permissions).                                                          *)
(***************************************************************************)
FormFields == {"firstName", "yearOfStudy", "phone", "isActive", "skills",
               "preferences"}
SubroleNames == <<"lead", "member">>        \* in the order sort() gives
Preferences(n, l) ==
    [t |-> "object", notifications |-> Bool(n), newsletter |-> Bool(l)]

\* the user objects the modal is opened with
ModalUsers ==
    {[t |-> "object",
      id |-> IF kind = "id" THEN Str("k1") ELSE Undefined,
      _id |-> IF kind = "_id" THEN Str("k1") ELSE Undefined,
      firstName |-> firstName, yearOfStudy |-> yearOfStudy, phone |-> phone,
      isActive |-> active, skills |-> skills, preferences |-> preferences,
      subroles |-> subroles] :
        kind \in UserKinds,
        firstName \in {Undefined, Str("Ann")},
        yearOfStudy \in {Undefined, Num(0), Num(2)},
        phone \in {Undefined, Str("123")},
        active \in {Undefined, Bool(FALSE)},
        skills \in {Undefined, Arr(<<"a">>)},
        preferences \in {Undefined, Preferences(TRUE, FALSE)},
        subroles \in {Undefined, Arr(<<"member", "lead">>)}}

\* a ?? b
Nullish(a, b) == IF a.t \in {"undefined", "null"} THEN b ELSE a

\* setFormData({...}) of the initialising effect
InitialForm(user) ==
    [firstName |-> JsOr(user.firstName, Str("")),
     yearOfStudy |-> JsOr(user.yearOfStudy, Undefined),
     phone |-> JsOr(user.phone, Str("")),
     isActive |-> Nullish(user.isActive, Bool(TRUE)),
     skills |-> JsOr(user.skills, Arr(<<>>)),
     preferences |-> JsOr(user.preferences, Preferences(TRUE, TRUE))]

\* Array.isArray(user.subroles) ? user.subroles : []
InitialSubroles(user) ==
    IF user.subroles.t = "array" THEN user.subroles.items ELSE <<>>

\* user.id || user._id || ''
normalizedUserId(user) == JsOr(JsOr(user.id, user._id), Str(""))

\* the error the initialising effect leaves
InitialError(user) ==
    IF ~Truthy(normalizedUserId(user))
    THEN Str("User object is missing an ID. Please refresh the page and try again.")
    ELSE Str("")

RECURSIVE JoinQuoted(_)
JoinQuoted(items) ==
    IF items = <<>> THEN ""
    ELSE "\"" \o Head(items) \o "\""
         \o (IF Len(items) > 1 THEN "," ELSE "") \o JoinQuoted(Tail(items))

\* JSON.stringify(v), for the arrays of strings, the preferences objects
\* and the null it is applied to
JsonStringify(v) ==
    CASE v.t = "null"  -> "null"
      [] v.t = "array" -> "[" \o JoinQuoted(v.items) \o "]"
      [] v.t = "object" ->
            "{\"notifications\":"
            \o (IF v.notifications.b THEN "true" ELSE "false")
            \o ",\"newsletter\":"
            \o (IF v.newsletter.b THEN "true" ELSE "false") \o "}"

\* the body of the forEach over Object.entries(formData): whether the key
\* gets into the local changedFields.  `value !== originalValue` compares
\* arrays and objects by reference; a form value with the original's
\* contents is either the original itself or is found equal by
\* JSON.stringify, so both ways the key is left out
FieldChanged(user, form, key) ==
    LET value == form[key]
        originalValue == user[key]
    IN  IF value = originalValue THEN FALSE
        ELSE IF value.t = "array" /\ originalValue.t = "array"
        THEN JsonStringify(value) # JsonStringify(originalValue)
        ELSE IF TypeOf(value) = "object" /\ TypeOf(originalValue) = "object"
        THEN JsonStringify(value) # JsonStringify(originalValue)
        ELSE IF value = Str("")
                /\ originalValue \in {Null, Undefined, Str("")}
        THEN FALSE
        ELSE TRUE

\* the local changedFields of handleSubmit
ChangedFieldsOf(user, form) ==
    [key \in {k \in FormFields : FieldChanged(user, form, k)} |->
        IF key = "phone" /\ form[key] = Str("") THEN Null ELSE form[key]]

\* [...list].sort(), for lists of subrole names
SortSubroles(list) ==
    LET present == {k \in 1..Len(SubroleNames) :
                       \E j \in 1..Len(list) : list[j] = SubroleNames[k]}
        count(k) == Cardinality({j \in 1..Len(list) :
                                    list[j] = SubroleNames[k]})
    IN  IF 1 \in present /\ 2 \in present
        THEN [j \in 1..Len(list) |->
                 IF j <= count(1) THEN SubroleNames[1] ELSE SubroleNames[2]]
        ELSE list

\* subrolesChanged
SubrolesChanged(user, selected) ==
    JsonStringify(Arr(SortSubroles(InitialSubroles(user))))
        # JsonStringify(Arr(SortSubroles(selected)))

\* the answers to the modal's PUT requests: the fetch is rejected, or there
\* is a response with its ok flag, its status and what response.json()
\* gives (Unparsable: it rejects)
ServerUser == [t |-> "object", id |-> Str("k1"), firstName |-> Str("Zoe")]
PutBodies ==
    {Unparsable, Null, EmptyObject,
     [t |-> "object", data |-> [t |-> "object", user |-> ServerUser]],
     [t |-> "object", message |-> Str("Email already in use")],
     [t |-> "object", error |-> [t |-> "object",
                                 message |-> Str("Validation failed")]]}
PutAnswers ==
    {Rejected} \cup
    {[t |-> "response", ok |-> status = 200, status |-> status, body |-> body] :
        status \in {200, 400, 401, 403, 404}, body \in PutBodies}

\* await response.json().catch(() => ({}))
JsonOrEmpty(body) == IF body = Unparsable THEN EmptyObject ELSE body

NoSubmit == [pc |-> "idle"]

InitModal ==
    /\ editUser \in ModalUsers
    /\ formData = InitialForm(editUser)
    /\ changedFields = {}
    /\ selectedSubroles = InitialSubroles(editUser)
    /\ modalError = InitialError(editUser)
    /\ modalLoading = FALSE
    /\ modalToken \in {Null, Str("t1")}
    /\ submitRun = NoSubmit
    /\ saved = Null
    /\ closed = FALSE
    /\ formActions = 0
    /\ evalRequest = Undefined
    /\ evalUser = Undefined
    /\ evalResult = NotEvaluated
    /\ PageIdle
    /\ BadgeIdle
    /\ ProxyIdle
    /\ UsersIdle
    /\ HookIdle

\* the form can be used: the modal is open and no submit is running
FormOpen ==
    /\ editUser # Null
    /\ ~closed
    /\ submitRun.pc \in {"idle", "done"}
    /\ formActions < MaxFormActions

\* the values the inputs pass to handleInputChange
FieldInputs(field) ==
    CASE field = "firstName"   -> {Str(""), Str("Ann"), Str("Bob")}
      [] field = "yearOfStudy" -> {Undefined, Num(2), Num(3)}
      [] field = "phone"       -> {Str(""), Str("123")}
      [] field = "isActive"    -> {Bool(TRUE), Bool(FALSE)}
      [] field = "skills"      -> {Arr(<<>>), Arr(<<"a">>)}
      [] field = "preferences" -> {Preferences(TRUE, TRUE),
                                   Preferences(TRUE, FALSE)}

\* handleInputChange(field, value); the arrays and objects the inputs pass
\* are new ones, never the original's
handleInputChange(field, value) ==
    /\ FormOpen
    /\ formActions' = formActions + 1
    /\ formData' = [formData EXCEPT ![field] = value]
    /\ changedFields' =
          IF value.t \in {"array", "object"} \/ value # editUser[field]
          THEN changedFields \cup {field}
          ELSE changedFields \ {field}
    /\ UNCHANGED <<editUser, selectedSubroles, modalError, modalLoading,
                   modalToken, submitRun, saved, closed>>
    /\ UNCHANGED <<evalVars, pageVars, badgeVars, proxyVars, usersVars,
                   hookVars>>

\* the checkbox of a subrole:
\* setSelectedSubroles(prev => checked ? prev.filter(...) : [...prev, name])
ToggleSubrole(name) ==
    /\ FormOpen
    /\ formActions' = formActions + 1
    /\ selectedSubroles' =
          IF \E j \in 1..Len(selectedSubroles) : selectedSubroles[j] = name
          THEN SelectSeq(selectedSubroles, LAMBDA x : x # name)
          ELSE Append(selectedSubroles, name)
    /\ UNCHANGED <<editUser, formData, changedFields, modalError,
                   modalLoading, modalToken, submitRun, saved, closed>>
    /\ UNCHANGED <<evalVars, pageVars, badgeVars, proxyVars, usersVars,
                   hookVars>>

\* a submit that ends here with the error message: the return inside the
\* try, then finally { setIsLoading(false) }
EndWithError(run, message) ==
    /\ submitRun' = [run EXCEPT !.pc = "done"]
    /\ modalError' = message
    /\ modalLoading' = FALSE
    /\ UNCHANGED <<saved, closed>>

\* onSave(updatedUser); onClose(); finally { setIsLoading(false) }
EndWithSave(run, updatedUser) ==
    /\ submitRun' = [run EXCEPT !.pc = "done"]
    /\ saved' = updatedUser
    /\ closed' = TRUE
    /\ modalLoading' = FALSE
    /\ modalError' = Str("")

\* the request is sent and the submit awaits its answer
Await(run, kind, body) ==
    /\ submitRun' = [run EXCEPT !.pc = kind,
                                !.requests = Append(run.requests,
                                    [kind |-> kind, body |-> body,
                                     ok |-> FALSE])]
    /\ modalLoading' = TRUE
    /\ modalError' = Str("")
    /\ UNCHANGED <<saved, closed>>

\* the answer to the request the submit awaits is noted
Answered(run, ok) ==
    [run EXCEPT !.requests[Len(run.requests)].ok = ok]

\* if (subrolesChanged) { ... } onSave(updatedUser); onClose()
SubrolesStep(run, updatedUser) ==
    IF run.subrolesChanged
    THEN IF ~Truthy(normalizedUserId(editUser))
         THEN EndWithError(run, Str("Invalid user ID. Cannot update subroles."))
         ELSE Await([run EXCEPT !.updatedUser = updatedUser], "subroles",
                    [subroles |-> selectedSubroles])
    ELSE EndWithSave(run, updatedUser)

\* handleSubmit, up to its first await or its return
handleSubmit ==
    LET fields == ChangedFieldsOf(editUser, formData)
        run == [pc |-> "start",
                changedFields |-> fields,
                subrolesChanged |-> SubrolesChanged(editUser, selectedSubroles),
                updatedUser |-> editUser,
                requests |-> <<>>]
    IN  /\ FormOpen
        /\ formActions' = formActions + 1
        /\ IF ~Truthy(modalToken)
           THEN EndWithError(run, Str("Authentication required"))
           ELSE IF DOMAIN fields = {} /\ ~run.subrolesChanged
           THEN EndWithError(run,
                   Str("No changes detected. Please modify at least one field before saving."))
           ELSE IF DOMAIN fields # {}
           THEN IF ~Truthy(normalizedUserId(editUser))
                   \/ Trim(normalizedUserId(editUser).s) = ""
                THEN EndWithError(run,
                        Str("Invalid user ID. Cannot update user. The user object is missing an ID field."))
                ELSE Await(run, "core", fields)
           ELSE SubrolesStep(run, editUser)
        /\ UNCHANGED <<editUser, formData, changedFields, selectedSubroles,
                       modalToken>>
        /\ UNCHANGED <<evalVars, pageVars, badgeVars, proxyVars, usersVars,
                       hookVars>>

\* the message shown for a core update that was answered with !response.ok
CoreErrorMessage(status, errorData) ==
    LET apiMessage == BackendMessage(errorData)
    IN  IF apiMessage = Thrown THEN Thrown
        ELSE IF status = 404
        THEN JsOr(apiMessage, Str("User not found. The user with ID \""
                    \o normalizedUserId(editUser).s
                    \o "\" may have been deleted or the ID is incorrect. Please refresh the users list and try again."))
        ELSE IF status = 401
        THEN JsOr(apiMessage, Str("Authentication failed. Please log in again."))
        ELSE IF status = 403
        THEN JsOr(apiMessage, Str("You do not have permission to update this user."))
        ELSE IF ~Truthy(apiMessage)
        THEN Str("Failed to update user " \o InParens(status)
                 \o ". Please try again.")
        ELSE apiMessage

\* handleSubmit from the answer to the core PUT on
ReceiveCore ==
    /\ submitRun # Null
    /\ submitRun.pc = "core"
    /\ \E answer \in PutAnswers :
          IF answer = Rejected
          THEN EndWithError(Answered(submitRun, FALSE),
                            Str("Network error occurred"))
          ELSE LET run == Answered(submitRun, answer.ok)
                   data == JsonOrEmpty(answer.body)
               IN  IF answer.ok
                   THEN IF Get(data, "data") = Thrown
                        THEN EndWithError(run, Str("Network error occurred"))
                        ELSE SubrolesStep(run,
                                JsOr(OptGet(Get(data, "data"), "user"),
                                     run.updatedUser))
                   ELSE IF CoreErrorMessage(answer.status, data) = Thrown
                        THEN EndWithError(run, Str("Network error occurred"))
                        ELSE EndWithError(run,
                                CoreErrorMessage(answer.status, data))
    /\ UNCHANGED <<editUser, formData, changedFields, selectedSubroles,
                   modalToken, formActions>>
    /\ UNCHANGED <<evalVars, pageVars, badgeVars, proxyVars, usersVars,
                   hookVars>>

\* handleSubmit from the answer to the subroles PUT on
ReceiveSubroles ==
    /\ submitRun # Null
    /\ submitRun.pc = "subroles"
    /\ \E answer \in PutAnswers :
          IF answer = Rejected
          THEN EndWithError(Answered(submitRun, FALSE),
                            Str("Failed to update subroles"))
          ELSE LET run == Answered(submitRun, answer.ok)
                   err == JsonOrEmpty(answer.body)
               IN  IF ~answer.ok
                   THEN EndWithError(run,
                           JsOr(JsOr(OptGet(err, "message"),
                                     OptGet(OptGet(err, "error"), "message")),
                                Str("Failed to update subroles")))
                   ELSE EndWithSave(run,
                           [f \in DOMAIN run.updatedUser \cup {"subroles"} |->
                               IF f = "subroles" THEN Arr(selectedSubroles)
                               ELSE run.updatedUser[f]])
    /\ UNCHANGED <<editUser, formData, changedFields, selectedSubroles,
                   modalToken, formActions>>
    /\ UNCHANGED <<evalVars, pageVars, badgeVars, proxyVars, usersVars,
                   hookVars>>

NextModal ==
    \/ \E field \in FormFields :
          \E value \in FieldInputs(field) : handleInputChange(field, value)
    \/ \E k \in 1..Len(SubroleNames) : ToggleSubrole(SubroleNames[k])
    \/ handleSubmit
    \/ ReceiveCore
    \/ ReceiveSubroles

SpecModal == InitModal /\ [][NextModal]_vars

(***************************************************************************)
(* Vocabulary of the claims about the evaluator.  The derived predicates   *)
(* of the rule table are stated on plain strings and booleans, apart from  *)
(* the evaluator's JavaScript operators.                                   *)
(***************************************************************************)
Evaluated == evalResult # NotEvaluated
IsObject(v) == v.t = "object"
BothPresent == Evaluated /\ IsObject(evalRequest) /\ IsObject(evalUser)

\* the identifier held by an optional string field, "" when absent
IdOf(v) == IF v.t = "string" THEN v.s ELSE ""

\* the actor's identifier: id, else _id, else ""
RuleUserId(cu) == IF IdOf(cu.id) # "" THEN IdOf(cu.id) ELSE IdOf(cu._id)

\* the embedded and separate identifiers of a request, in extraction order
EmbeddedIds(pr) ==
    IF pr.submittedBy.t = "object"
    THEN <<IdOf(pr.submittedBy._id), IdOf(pr.submittedBy.id),
           IdOf(pr.submittedById)>>
    ELSE <<IdOf(pr.submittedById)>>

\* the first non-empty string of a sequence, "" when there is none
RECURSIVE FirstNonEmpty(_)
FirstNonEmpty(q) ==
    IF q = <<>> THEN ""
    ELSE IF Head(q) # "" THEN Head(q) ELSE FirstNonEmpty(Tail(q))

\* the submitter identifier: the string form when submittedBy is a string,
\* otherwise the first of _id, id, submittedById that is non-empty
RuleSubmitterId(pr) ==
    IF pr.submittedBy.t = "string" THEN pr.submittedBy.s
    ELSE FirstNonEmpty(EmbeddedIds(pr))

\* the submitter identifier when every source, the string form included,
\* is skipped when it yields no identifier
FallbackSubmitterId(pr) ==
    FirstNonEmpty(<<IdOf(pr.submittedBy)>> \o EmbeddedIds(pr))

RuleIsOwner(pr, cu) ==
    /\ RuleUserId(cu) # ""
    /\ RuleSubmitterId(pr) # ""
    /\ RuleUserId(cu) = RuleSubmitterId(pr)
RuleIsAdmin(cu) == cu.role = Str("admin")
RuleIsMentorOrHigher(cu) ==
    cu.role \in {Str("mentor"), Str("researcher"), Str("admin")}
RuleIsApproved(pr) == pr.status = "approved"

\* every permission false, read-only
IsAllFalseReadOnly(r) ==
    /\ r.canEdit = Bool(FALSE)
    /\ r.canChangeStatus = Bool(FALSE)
    /\ r.canViewDocument = Bool(FALSE)
    /\ r.canDelete = Bool(FALSE)
    /\ r.canApprove = Bool(FALSE)
    /\ r.canReject = Bool(FALSE)
    /\ r.showAdminBadge = Bool(FALSE)
    /\ r.isReadOnly = Bool(TRUE)

PermissionFields ==
    {"canEdit", "canChangeStatus", "canViewDocument", "canDelete",
     "canApprove", "canReject", "isReadOnly", "showAdminBadge"}

(***************************************************************************)
(* Properties of getProjectRequestPermissions, under SpecEval              *)
(***************************************************************************)

\* C1: for an approved request and an actor whose role is not 'admin'
\* (any other role or none, owner or not) the result has isReadOnly = true,
\* canEdit = false and canChangeStatus = false.
C1_ApprovedFreezesNonAdmin ==
    (BothPresent /\ evalRequest.status = "approved"
        /\ evalUser.role # Str("admin"))
    => /\ evalResult.isReadOnly = Bool(TRUE)
       /\ evalResult.canEdit = Bool(FALSE)
       /\ evalResult.canChangeStatus = Bool(FALSE)

\* C1 witness: a mentor who owns an approved request has been evaluated
C1_Witness ==
    /\ BothPresent
    /\ evalRequest.status = "approved"
    /\ evalUser.role = Str("mentor")
    /\ RuleIsOwner(evalRequest, evalUser)
    /\ evalResult.isReadOnly = Bool(TRUE)

\* C2: for an approved request and an actor whose role is exactly 'admin'
\* the result has showAdminBadge = true, canEdit = true, isReadOnly = false.
C2_ApprovedAdminKeepsRights ==
    (BothPresent /\ evalRequest.status = "approved"
        /\ evalUser.role = Str("admin"))
    => /\ evalResult.showAdminBadge = Bool(TRUE)
       /\ evalResult.canEdit = Bool(TRUE)
       /\ evalResult.isReadOnly = Bool(FALSE)

\* C2 witness: an admin who is not the owner, on an approved request
C2_Witness ==
    /\ BothPresent
    /\ evalRequest.status = "approved"
    /\ evalUser.role = Str("admin")
    /\ ~RuleIsOwner(evalRequest, evalUser)
    /\ evalResult.showAdminBadge = Bool(TRUE)

\* C3: when the request or the actor is absent (null or undefined), whatever
\* the other argument, the result is the degenerate record: the seven
\* permissions false and isReadOnly true.
C3_AbsentArgumentDegenerate ==
    (Evaluated /\ (~IsObject(evalRequest) \/ ~IsObject(evalUser)))
    => IsAllFalseReadOnly(evalResult)

\* C3 witness: a present approved request evaluated for a null actor
C3_Witness ==
    /\ Evaluated
    /\ IsObject(evalRequest)
    /\ evalRequest.status = "approved"
    /\ evalUser = Null
    /\ evalResult.isReadOnly = Bool(TRUE)

\* C4: on a rejected request the owner who is neither reviewer nor admin
\* gets canEdit = false, while a mentor, researcher or admin gets
\* canEdit = true and canChangeStatus = true, owner or not.
C4_RejectedBlocksOwnerOnly ==
    (BothPresent /\ evalRequest.status = "rejected")
    => /\ (RuleIsOwner(evalRequest, evalUser)
              /\ ~RuleIsMentorOrHigher(evalUser))
          => evalResult.canEdit = Bool(FALSE)
       /\ RuleIsMentorOrHigher(evalUser)
          => /\ evalResult.canEdit = Bool(TRUE)
             /\ evalResult.canChangeStatus = Bool(TRUE)

\* C4 witness: the plain owner of a rejected request has been refused
C4_Witness ==
    /\ BothPresent
    /\ evalRequest.status = "rejected"
    /\ RuleIsOwner(evalRequest, evalUser)
    /\ evalUser.role = Str("team_member")
    /\ evalResult.canEdit = Bool(FALSE)

\* C5: for every status, role and ownership each of the eight fields is
\* equivalent (as a truth value) to its row of the rule table.
C5_RuleTable ==
    BothPresent =>
      LET own == RuleIsOwner(evalRequest, evalUser)
          adm == RuleIsAdmin(evalUser)
          men == RuleIsMentorOrHigher(evalUser)
          app == RuleIsApproved(evalRequest)
          st  == evalRequest.status
      IN  /\ Truthy(evalResult.canEdit) <=>
                (adm \/ (own /\ ~app /\ st # "rejected") \/ (men /\ ~app))
          /\ Truthy(evalResult.canChangeStatus) <=> (adm \/ (men /\ ~app))
          /\ Truthy(evalResult.canViewDocument) <=> (adm \/ own \/ men)
          /\ Truthy(evalResult.canDelete) <=>
                (adm \/ (own /\ st # "approved" /\ st # "under_review"))
          /\ Truthy(evalResult.canApprove) <=> (men /\ ~app)
          /\ Truthy(evalResult.canReject) <=> (men /\ ~app)
          /\ Truthy(evalResult.isReadOnly) <=> (app /\ ~adm)
          /\ Truthy(evalResult.showAdminBadge) <=> (app /\ adm)

\* C5 witness: the owner of a request under review, who may edit it but
\* may not delete it
C5_Witness ==
    /\ BothPresent
    /\ evalRequest.status = "under_review"
    /\ RuleIsOwner(evalRequest, evalUser)
    /\ evalUser.role = Str("team_member")
    /\ Truthy(evalResult.canEdit)
    /\ ~Truthy(evalResult.canDelete)

\* the request's submittedBy names identifier x in one of the two shapes:
\* the string x, or an object whose _id is x
SubmittedByNames(pr, x) ==
    \/ pr.submittedBy = Str(x)
    \/ (pr.submittedBy.t = "object" /\ pr.submittedBy._id = Str(x))

\* C6: for an actor with id X and a role outside the reviewer tier, a
\* pending request whose submittedBy is the string X or the object {_id: X}
\* gives canViewDocument, canEdit and canDelete true; with a different
\* non-empty submitter id in either shape all three are false.
C6_OwnershipBothShapes ==
    (BothPresent /\ evalRequest.status = "pending"
        /\ ~RuleIsMentorOrHigher(evalUser))
    => \A x \in UserIds :
         evalUser.id = Str(x) =>
           /\ SubmittedByNames(evalRequest, x)
              => /\ evalResult.canViewDocument = Bool(TRUE)
                 /\ evalResult.canEdit = Bool(TRUE)
                 /\ evalResult.canDelete = Bool(TRUE)
           /\ (\E y \in UserIds \ {x} : SubmittedByNames(evalRequest, y))
              => /\ evalResult.canViewDocument = Bool(FALSE)
                 /\ evalResult.canEdit = Bool(FALSE)
                 /\ evalResult.canDelete = Bool(FALSE)

\* C6 witness: the object shape {_id: X}, with no id and no submittedById,
\* made the actor with id X the owner
C6_Witness ==
    /\ BothPresent
    /\ evalRequest.status = "pending"
    /\ evalUser.role = Str("team_member")
    /\ evalRequest.submittedBy.t = "object"
    /\ evalRequest.submittedBy._id = evalUser.id
    /\ evalRequest.submittedBy.id = Undefined
    /\ evalRequest.submittedById = Undefined
    /\ IdOf(evalUser.id) # ""
    /\ evalResult.canDelete = Bool(TRUE)

\* C7: the submitter identifier is the first of string form, _id, id and
\* submittedById that yields an identifier, and is empty only when none
\* does; so a request whose submittedBy is absent, an empty string or an
\* object without _id and id, and whose submittedById is the actor's id,
\* makes that actor the owner (the document is visible to a plain actor).
C7_SubmitterFallbackChain ==
    BothPresent =>
      /\ submittedById(evalRequest) = Str(FallbackSubmitterId(evalRequest))
      /\ (/\ RuleUserId(evalUser) # ""
          /\ evalRequest.submittedById = Str(RuleUserId(evalUser))
          /\ evalRequest.submittedBy \in
                {Undefined, Str(""),
                 [t |-> "object", _id |-> Undefined, id |-> Undefined]})
         => Truthy(evalResult.canViewDocument)

\* C8: for a soft-deleted request (isDeleted = true) the result is the
\* all-false, read-only record for every actor, an admin included (no
\* permission holds and isReadOnly holds).
C8_DeletedIsAllFalse ==
    (BothPresent /\ evalRequest.isDeleted = Bool(TRUE))
    => /\ \A f \in PermissionFields \ {"isReadOnly"} :
             ~Truthy(evalResult[f])
       /\ Truthy(evalResult.isReadOnly)

\* C9: every field of the result is a boolean, and when the actor's or the
\* submitter's identifier resolves to the empty string an actor outside the
\* reviewer tier gets canEdit, canViewDocument and canDelete exactly false.
C9_EmptyIdsNeverOwnBooleans ==
    Evaluated =>
      /\ \A f \in PermissionFields : evalResult[f].t = "boolean"
      /\ (/\ IsObject(evalRequest) /\ IsObject(evalUser)
          /\ (RuleUserId(evalUser) = "" \/ RuleSubmitterId(evalRequest) = "")
          /\ ~RuleIsMentorOrHigher(evalUser))
         => /\ evalResult.canEdit = Bool(FALSE)
            /\ evalResult.canViewDocument = Bool(FALSE)
            /\ evalResult.canDelete = Bool(FALSE)

(***************************************************************************)
(* Properties of ProjectRequestsPage, under SpecPage                       *)
(***************************************************************************)
StatusChanging(m) == m.op \in {"approve", "reject", "status"}

\* C10: no status-changing request (approve, reject, status update) is sent
\* for a request that is listed as approved when the current user is not an
\* admin; a status-changing request is sent for a listed request only if
\* canChangeStatus holds for that listed request and the current user.
C10_StatusChangeOnlyWhenAllowed ==
    \A m \in sent :
      (StatusChanging(m) /\ m.listedAs # Undefined)
      => /\ ~(/\ m.listedAs.status = "approved"
              /\ OptGet(currentUser, "role") # Str("admin"))
         /\ Truthy(canChangeStatus(m.listedAs, currentUser))

(***************************************************************************)
(* Vocabulary of the claims about the status badge.                        *)
(***************************************************************************)
BadgeCalled == badgeResult # NotEvaluated

\* the human label of each status
DisplayText ==
    [pending |-> "Pending", under_review |-> "Under Review",
     approved |-> "Approved", rejected |-> "Rejected", on_hold |-> "On Hold"]

IsEnumeratedStatus(v) == v.t = "string" /\ v.s \in Statuses
IsMissingStatus(v) == v = Undefined \/ v = Str("")
IsOtherStatus(v) == v.t = "string" /\ v.s # "" /\ v.s \notin Statuses

\* the badge was computed for an approved request with the canEdit that the
\* evaluator returned for that request and the actor
BadgeOfApprovedRequest ==
    /\ Evaluated
    /\ BadgeCalled
    /\ IsObject(evalRequest)
    /\ evalRequest.status = "approved"

(***************************************************************************)
(* Properties of getStatusBadge, under SpecBadge.                          *)
(***************************************************************************)
\* C11: each of the five statuses is displayed with its fixed label (and
\* pending with the yellow colour), the colour, text and icon are the same
\* for either value of canEdit, and an undefined or empty status gives the
\* text 'Unknown' without a badge field.
C11_StatusDisplay ==
    BadgeCalled =>
        /\ IsEnumeratedStatus(badgeStatus) =>
              /\ badgeResult.text = Str(DisplayText[badgeStatus.s])
              /\ badgeStatus.s = "pending" =>
                    badgeResult.color = Str("bg-yellow-100 text-yellow-800")
              /\ \A ce \in {Bool(TRUE), Bool(FALSE)} :
                    \A f \in {"color", "text", "icon"} :
                        getStatusBadge(badgeStatus, ce)[f] = badgeResult[f]
        /\ IsMissingStatus(badgeStatus) =>
              /\ badgeResult.text = Str("Unknown")
              /\ "badge" \notin DOMAIN badgeResult

\* an approved status has been displayed for a caller that cannot edit
C11_Witness ==
    /\ BadgeCalled
    /\ badgeStatus = Str("approved")
    /\ badgeCanEdit = Bool(FALSE)
    /\ badgeResult.text = Str("Approved")

\* C12: a status string that is present but is none of the five statuses
\* gets the neutral 'Unknown' tuple, the result of a missing status.
C12_OtherStatusIsUnknown ==
    (BadgeCalled /\ IsOtherStatus(badgeStatus)) =>
        /\ badgeResult = UnknownBadge
        /\ badgeResult.text = Str("Unknown")
        /\ badgeResult.color = Str("bg-gray-100 text-gray-800")

\* C13: a badge field is attached for status 'approved' only; and for an
\* approved request, with the canEdit of the evaluator, the badge is
\* 'Admin-Only Editing' exactly when the actor's role is 'admin', which is
\* exactly when showAdminBadge is true, and 'Read-Only' exactly when
\* isReadOnly is true.
C13_ApprovedBadgeFollowsPermissions ==
    /\ BadgeCalled =>
          ("badge" \in DOMAIN badgeResult <=> badgeStatus = Str("approved"))
    /\ BadgeOfApprovedRequest =>
          /\ badgeResult.badge = Str("Admin-Only Editing")
                <=> OptGet(evalUser, "role") = Str("admin")
          /\ OptGet(evalUser, "role") = Str("admin")
                <=> evalResult.showAdminBadge = Bool(TRUE)
          /\ badgeResult.badge = Str("Read-Only")
                <=> evalResult.isReadOnly = Bool(TRUE)

\* an approved request has been badged for an administrator
C13_Witness ==
    /\ BadgeOfApprovedRequest
    /\ OptGet(evalUser, "role") = Str("admin")
    /\ badgeResult.badge = Str("Admin-Only Editing")

(***************************************************************************)
(* Vocabulary of the claims about the proxy routes.                        *)
(***************************************************************************)
Responded == proxyResponse # NoResponse
UsersHandlers == {"users.GET", "users.PUT", "users.DELETE"}
\* the handler called the backend and the call completed with an answer
BackendCompleted == proxyOutbound = 1 /\ proxyBackend # Rejected
\* the body of the backend's answer is empty or whitespace only
BlankBody == proxyBackend.body.text \in {"", " ", "  "}
\* the handler gets to read the body of the backend's answer: the document
\* route does not when it passes a redirect on
BodyIsRead ==
    /\ BackendCompleted
    /\ proxyRequest.handler = "document.GET" =>
          ~(proxyBackend.cloudinary \/ proxyBackend.status \in {301, 302})
\* the body is read, but is not the JSON the handler parses it as
BodyUnparsable ==
    /\ ~proxyBackend.readFails
    /\ proxyBackend.body.parsed = Unparsable
    /\ IF proxyRequest.handler = "document.GET"
       THEN ~Ok(proxyBackend.status)
       ELSE IsJsonType(proxyBackend.contentType) /\ ~BlankBody
\* a JSON response whose body is an object with a non-empty message
CarriesMessage(response) ==
    /\ response.kind = "json"
    /\ response.body.t = "object"
    /\ "message" \in DOMAIN response.body
    /\ response.body.message.t = "string"
    /\ response.body.message.s # ""

(***************************************************************************)
(* Properties of the proxy routes, under SpecProxy.                        *)
(***************************************************************************)
\* C14: a call without an Authorization header is answered with 401 and
\* success = false, and no outbound call is made, by each of the four
\* handlers, whatever the id and the body of the call.
C14_NoTokenNoOutboundCall ==
    (Responded /\ proxyRequest.token = Null) =>
        /\ proxyResponse.status = 401
        /\ proxyResponse.kind = "json"
        /\ proxyResponse.body.success = Bool(FALSE)
        /\ proxyOutbound = 0

\* PUT has answered a call with no token, a blank id and an unreadable body
C14_Witness ==
    /\ Responded
    /\ proxyRequest.handler = "users.PUT"
    /\ proxyRequest.token = Null
    /\ proxyRequest.id = ""
    /\ ~proxyRequest.bodyReadable
    /\ proxyResponse.status = 401

\* C15: when the backend answers a users handler with status 200 and an
\* empty or whitespace-only body, of any content type, the response has a
\* 2xx status and the empty object as its body, and is no error envelope.
C15_EmptyBodyIsSuccess ==
    (/\ Responded
     /\ proxyRequest.handler \in UsersHandlers
     /\ BackendCompleted
     /\ proxyBackend.status = 200
     /\ ~proxyBackend.readFails
     /\ BlankBody) =>
        /\ Ok(proxyResponse.status)
        /\ proxyResponse.kind = "json"
        /\ proxyResponse.body = EmptyObject
        /\ OptGet(proxyResponse.body, "success") # Bool(FALSE)

\* PUT has answered a 200 with a whitespace body that is not typed as JSON
C15_Witness ==
    /\ Responded
    /\ proxyRequest.handler = "users.PUT"
    /\ BackendCompleted
    /\ proxyBackend.status = 200
    /\ ~proxyBackend.readFails
    /\ proxyBackend.body.text = "  "
    /\ proxyBackend.contentType = "text/html"
    /\ proxyResponse.status = 200

\* C16: every JSON response of a users handler is an object with a boolean
\* success field, for JSON, non-JSON and empty backend bodies and for 2xx
\* and non-2xx backend statuses.
C16_EnvelopeHasSuccess ==
    (/\ Responded
     /\ proxyRequest.handler \in UsersHandlers
     /\ proxyResponse.kind = "json") =>
        /\ proxyResponse.body.t = "object"
        /\ "success" \in DOMAIN proxyResponse.body
        /\ proxyResponse.body.success.t = "boolean"

\* C17: when the backend call of a users handler completes, the status of
\* the response is the status of the backend's answer, and a body that is
\* not JSON gives a response that carries a message.
C17_BackendStatusPreserved ==
    (/\ Responded
     /\ proxyRequest.handler \in UsersHandlers
     /\ BackendCompleted) =>
        /\ proxyResponse.status = proxyBackend.status
        /\ (/\ ~proxyBackend.readFails
            /\ ~BlankBody
            /\ ~IsJsonType(proxyBackend.contentType)) =>
                CarriesMessage(proxyResponse)

\* the backend's answer to PUT is read and holds no message of its own: it
\* is empty, or a JSON object without message and error
PutBodyWithoutMessage ==
    /\ ~proxyBackend.readFails
    /\ \/ BlankBody
       \/ /\ IsJsonType(proxyBackend.contentType)
          /\ proxyBackend.body.parsed.t = "object"
          /\ "message" \notin DOMAIN proxyBackend.body.parsed
          /\ "error" \notin DOMAIN proxyBackend.body.parsed

\* C18: when the backend answers the users PUT handler with a non-2xx
\* status (and no message of its own), the message of the envelope is a
\* text of its own for each of 404, 401, 403 and 500, and the generic
\* 'Failed to update user (<status>)' for every other status.
C18_TailoredMessagePerStatus ==
    (/\ Responded
     /\ proxyRequest.handler = "users.PUT"
     /\ BackendCompleted
     /\ ~Ok(proxyBackend.status)
     /\ PutBodyWithoutMessage) =>
        /\ CarriesMessage(proxyResponse)
        /\ proxyResponse.body.success = Bool(FALSE)
        /\ proxyBackend.status \in {404, 401, 403, 500}
             <=> proxyResponse.body.message
                   # Str("Failed to update user "
                         \o InParens(proxyBackend.status))

\* C19: a handler call ends with a response and no exception leaves the
\* handler; when the outbound call rejects or the body of the call cannot
\* be parsed, the response is the 500 'Internal server error' envelope;
\* when only reading or parsing the backend's body fails, the response is
\* not that envelope and has the status of the backend's answer.
C19_ErrorsBecomeResponses ==
    Responded =>
        /\ proxyResponse.t = "response"
        /\ (proxyOutbound = 1 /\ proxyBackend = Rejected) =>
              proxyResponse = InternalServerError
        /\ (/\ proxyRequest.handler = "users.PUT"
            /\ Truthy(proxyRequest.token)
            /\ Trim(proxyRequest.id) # ""
            /\ ~proxyRequest.bodyReadable) =>
              proxyResponse = InternalServerError
        /\ (BodyIsRead /\ (proxyBackend.readFails \/ BodyUnparsable)) =>
              /\ proxyResponse # InternalServerError
              /\ proxyResponse.status = proxyBackend.status

(***************************************************************************)
(* Properties of the Users page, under SpecUsers.                          *)
(***************************************************************************)
\* a response that tells the loop to stop: a page whose pagination has
\* hasMore = false, or a non-OK response
SaysStop(answer) ==
    \/ answer.t = "error"
    \/ /\ answer.t = "page"
       /\ OptGet(answer.pagination, "hasMore") = Bool(FALSE)

\* C20: in a run of fetchUsers no page request is issued after a page
\* response that carries pagination.hasMore = false, and none after a
\* non-OK response: the i-th response of that kind leaves the run with
\* the i requests it had issued.
C20_NoRequestAfterNoMore ==
    \A r \in 1..Len(fetchRuns) :
        \A i \in 1..Len(fetchRuns[r].responses) :
            SaysStop(fetchRuns[r].responses[i]) =>
                Len(fetchRuns[r].requests) <= i

\* the i-th response of a run is the page for the i-th request with the
\* hasMore flag that is true exactly when users remain beyond that page
Truthful(run, i) ==
    /\ run.responses[i].t = "page"
    /\ run.responses[i].pagination =
          [t |-> "object",
           hasMore |-> Bool(run.requests[i] + limit < Len(usersBackend))]

\* the run has ended and every answer it got was truthful
FinishedOnTruthfulBackend(run) ==
    /\ run.pc = "done"
    /\ \A i \in 1..Len(run.responses) : Truthful(run, i)

\* C21: against a backend that answers every request with its slice and a
\* truthful hasMore flag, a run of fetchUsers ends after at most one
\* request per page of the list (and one more), and has then collected
\* every backend user with a valid id, once each and in backend order;
\* allUsers holds that list when every run was of this kind.
C21_DrainsTruthfulBackend ==
    /\ \A r \in 1..Len(fetchRuns) :
          /\ Len(fetchRuns[r].requests) <= (MaxUsers \div limit) + 2
          /\ FinishedOnTruthfulBackend(fetchRuns[r]) =>
                fetchRuns[r].allFetchedUsers = normalizedUsers(usersBackend)
    /\ (/\ fetchRuns # <<>>
        /\ \A r \in 1..Len(fetchRuns) :
               FinishedOnTruthfulBackend(fetchRuns[r])) =>
          allUsers = normalizedUsers(usersBackend)

\* C22: when a run of fetchUsers ends on a non-OK response, the run leaves
\* errorMessage non-null, holding the message chosen for that failure.
C22_FailureIsSurfaced ==
    [][\A r \in 1..Len(fetchRuns) :
          (/\ fetchRuns[r].pc = "awaiting"
           /\ fetchRuns'[r].pc = "done"
           /\ fetchRuns'[r].responses[Len(fetchRuns'[r].responses)].t
                 = "error") =>
             /\ errorMessage' # Null
             /\ errorMessage' =
                  ErrorText(fetchRuns'[r].responses[
                               Len(fetchRuns'[r].responses)])]_vars


(***************************************************************************)
(* useNotifications: vocabulary of the claims                              *)
(***************************************************************************)
IsPrefix(a, b) == Len(a) <= Len(b) /\ SubSeq(b, 1, Len(a)) = a

\* this step is the answer to a request that the fetch effect sent
AnswersEffectFetch ==
    \E i \in 1..Len(inFlight) :
        inFlight[i].origin = "effect" /\ inFlight' = Without(inFlight, i)

StatsConsistent(st) ==
    /\ 0 <= st.unread
    /\ st.read <= st.total
    /\ st.unread + st.read = st.total

\* a fetch has set the stats
StatsFetched == hook.stats.total > 0

\* this step is a call of markAsRead or markAllAsRead that succeeded
MarkedInStep ==
    /\ userActions' = userActions + 1
    /\ lastCall'.call \in {"markAsRead", "markAllAsRead"}
    /\ lastCall'.ok

\* the notification id is in the list and read
ListedAsRead(id) ==
    \E k \in 1..Len(hook.notifications) :
        hook.notifications[k].id = id /\ hook.notifications[k].read

\* C23: after loadMore, and until the component's next call (refetch, new
\* params or any other), the list only grows by the page loadMore asked
\* for: no fetch the hook starts on its own puts the first page in its
\* place.  (That the hook's own requests are finitely many shows in the
\* exploration of SpecNotifications, which ends although FetchEffect has no
\* cap.)
C23_LoadMoreStands ==
    [][(hook # Null /\ lastCall.call = "loadMore" /\ AnswersEffectFetch) =>
          IsPrefix(hook.notifications, hook'.notifications)]_vars

\* C24: with params.limit = 0 the fetch effect sends no request.
C24_NoFetchForLimitZero ==
    [][(hook # Null /\ params.limit = Num(0) /\ effectDeps' # effectDeps) =>
          inFlight' = inFlight]_vars

\* C25: a successful markAsRead or markAllAsRead on fetched, consistent
\* stats leaves them consistent (0 <= unread, read <= total, unread + read =
\* total), and markAsRead of a notification already read leaves them as
\* they were.
C25_StatsStayConsistent ==
    [][(hook # Null /\ StatsFetched /\ StatsConsistent(hook.stats)
          /\ MarkedInStep) =>
          /\ StatsConsistent(hook'.stats)
          /\ (lastCall'.call = "markAsRead" /\ ListedAsRead(lastCall'.id)) =>
                hook'.stats = hook.stats]_vars

(***************************************************************************)
(* EditUserModal: vocabulary of the claims                                 *)
(***************************************************************************)
\* no field and no subrole differs from what the modal was opened with
Unmodified ==
    /\ formData = InitialForm(editUser)
    /\ selectedSubroles = InitialSubroles(editUser)

\* this step is a call of handleSubmit
SubmitCalled ==
    /\ formActions' = formActions + 1
    /\ submitRun' # submitRun

\* this step ends a submit
SubmitFinishes ==
    /\ submitRun' # submitRun
    /\ submitRun'.pc = "done"

NoChangesDetected ==
    Str("No changes detected. Please modify at least one field before saving.")

\* the submit has sent a request and every request it sent has succeeded
AllRequestsSucceeded(run) ==
    /\ run.requests # <<>>
    /\ \A i \in 1..Len(run.requests) : run.requests[i].ok

\* the core PUT, if any, was sent before the subroles PUT, and no subroles
\* PUT was sent after a core PUT that failed
CoreBeforeSubroles(run) ==
    \A i, j \in 1..Len(run.requests) :
        (run.requests[i].kind = "core" /\ run.requests[j].kind = "subroles") =>
            i < j /\ run.requests[i].ok

\* C26: a submit of the unmodified form, with a token, sends no request and
\* shows 'No changes detected...', whatever fields the user object lacks.
C26_UnmodifiedSubmitSendsNothing ==
    [][(editUser # Null /\ Truthy(modalToken) /\ Unmodified /\ SubmitCalled) =>
          /\ submitRun'.requests = <<>>
          /\ modalError' = NoChangesDetected]_vars

\* C27: when a submit ends, onSave and onClose have been called iff the
\* submit sent a request and all its requests succeeded; the core PUT comes
\* before the subroles PUT and no subroles PUT follows a failed core PUT; a
\* submit that does not save leaves the modal open with a non-empty error;
\* and isLoading is false.
C27_SaveIffAllSucceeded ==
    [][(editUser # Null /\ SubmitFinishes) =>
          /\ (saved' # Null /\ closed') <=> AllRequestsSucceeded(submitRun')
          /\ (saved' # Null) <=> closed'
          /\ CoreBeforeSubroles(submitRun')
          /\ (saved' = Null) => (~closed' /\ Truthy(modalError'))
          /\ modalLoading' = FALSE]_vars

(***************************************************************************)
(* The users page's view: vocabulary of the claims                         *)
(***************************************************************************)
\* the filter that the displayed list is computed with
EffectiveFilter == <<debouncedSearchQuery, selectedRole, activeTab>>

AllRunsDone ==
    /\ fetchRuns # <<>>
    /\ \A r \in 1..Len(fetchRuns) : fetchRuns[r].pc = "done"

\* the run was started for the current tab and has reached setAllUsers
StoredForCurrentTab(run) ==
    /\ run.basePath = basePath(activeTab)
    /\ run.pc = "done"
    /\ run.responses[Len(run.responses)] # NetworkFailure

\* C28: whenever the filter the list is computed with (debounced search
\* text, role, tab) changes, the page shown is page 1; and whenever the
\* filtered list is non-empty, the displayed page of users is non-empty.
C28_FilterChangeShowsFirstPage ==
    [][/\ (EffectiveFilter' # EffectiveFilter) => usersCurrentPage' = 1
       /\ (filtered' # <<>>) => paginatedUsers' # <<>>]_vars

Listed(id) == \E j \in 1..Len(projectRequests) : projectRequests[j]._id = id

\* C30: every id in selectedRequests is the id of a request currently
\* listed in projectRequests, so that the requests a bulk action sends are
\* all for listed requests.
C30_SelectionIsListed ==
    \A k \in 1..Len(selectedRequests) : Listed(selectedRequests[k])

====
